---- MODULE Spec2Model ----
(***************************************************************************)
(* Model of the unified particle solver ParticleSolver (src/unnamed/       *)
(* part_000): admission of granulars, rigid bodies and fluids, the spatial *)
(* grid and the per-sub-step kernel pipeline of update().                  *)
(*                                                                         *)
(* Arithmetic.  The program works on float3 values on the GPU.  The model  *)
(* is two-dimensional (x, y; the z axis is dropped) and uses fixed-point   *)
(* integers: one length unit is radius/10.  A float division is an integer *)
(* division truncated toward zero, a float-to-int conversion (make_int3)   *)
(* truncates toward zero as in C.  Sizes that cannot be enumerated (the    *)
(* 512^3 grid, the 64-thread rigid-body block) are scaled down; each such  *)
(* definition says so.                                                     *)
(*                                                                         *)
(* Device memory returned by cudaMalloc is uninitialised: where the code   *)
(* can read it before writing it, the model fills it with a value chosen   *)
(* nondeterministically in Init.                                           *)
(***************************************************************************)
EXTENDS Integers, Sequences, FiniteSets, TLC

\* ------------------------------------------------------------------ bounds
\* scene->numMaxParticles and scene->numMaxRigidBodies (scene configuration)
NumMaxParticles == 8
NumMaxRigidBodies == 3
\* number of update() calls explored, and of admission calls explored after
\* the construction of an empty solver
MaxUpdates == 2
MaxCalls == 3
\* largest size, and number, of the temporary-storage requests explored
MaxTempSize == 4
MaxRequests == 3

\* ------------------------------------------------------- program constants
\* NUM_MAX_PARTICLE_PER_RIGID_BODY, the block size of shapeMatchingAlphaOne
\* (64 in the source, scaled down so that a larger body can be enumerated)
NUM_MAX_PARTICLE_PER_RIGID_BODY == 2
NUM_MAX_PARTICLE_PER_CELL == 15
\* numThreads of GetNumBlocksNumThreads
NumThreads == 512
\* gridSize (512 per axis in the source, scaled down)
GridSizeX == 3
GridSizeY == 3
\* scene->radius in length units, cellSize = 2.3 * radius, h = 2.3 * radius
Radius == 10
CellSize == 23
KernelRadius == 23
\* cellOrigin (-4.01, -1.01, -5.01), scaled to the small grid
CellOrigin == <<-23, -23>>
\* cudaMemset(devSolidPhaseCounter, 1, sizeof(int)) sets every byte to 1
SolidPhaseCounterInit == 16843009
\* gravity (0, -9.8, 0) in length units per tick^2
GravityY == -1
\* 1e-5 (the centroid test of addRigidBody) is 1/CentroidEpsInv length units
CentroidEpsInv == 500

\* scene->planes: origin and unit normal
Planes == << [origin |-> <<0, 0>>, normal |-> <<0, 1>>],
             [origin |-> <<-20, 0>>, normal |-> <<1, 0>>] >>

\* ------------------------------------------------------------ arithmetic
Abs(a) == IF a < 0 THEN -a ELSE a
Sign(a) == IF a < 0 THEN -1 ELSE IF a > 0 THEN 1 ELSE 0
\* C integer division / float-to-int conversion: truncation toward zero
TruncDiv(a, b) == Sign(a) * Sign(b) * (Abs(a) \div Abs(b))
\* C remainder (sign of the dividend)
CRem(a, b) == a - b * TruncDiv(a, b)
CeilDiv(a, b) == (a + b - 1) \div b
Min(a, b) == IF a < b THEN a ELSE b
Max(a, b) == IF a > b THEN a ELSE b

RECURSIVE ISqrtFrom(_, _)
ISqrtFrom(n, r) == IF (r + 1) * (r + 1) > n THEN r ELSE ISqrtFrom(n, r + 1)
\* sqrtf on fixed-point values: the integer square root
ISqrt(n) == ISqrtFrom(n, 0)

Zero2 == <<0, 0>>
\* a float3 with NaN components (the result of 0 * inf in the rotation
\* extraction, and of every operation on it)
NaN2 == << >>
IsNaN(a) == Len(a) = 0
VAdd(a, b) == IF IsNaN(a) \/ IsNaN(b) THEN NaN2 ELSE <<a[1] + b[1], a[2] + b[2]>>
VSub(a, b) == IF IsNaN(a) \/ IsNaN(b) THEN NaN2 ELSE <<a[1] - b[1], a[2] - b[2]>>
VScale(a, k) == IF IsNaN(a) THEN NaN2 ELSE <<a[1] * k, a[2] * k>>
VDiv(a, k) == IF IsNaN(a) THEN NaN2 ELSE <<TruncDiv(a[1], k), TruncDiv(a[2], k)>>
Dot(a, b) == a[1] * b[1] + a[2] * b[2]
\* z component of the cross product of two vectors of the plane
Cross(a, b) == a[1] * b[2] - a[2] * b[1]
Length2(a) == Dot(a, a)

RECURSIVE SumSeq(_)
SumSeq(s) == IF s = << >> THEN Zero2 ELSE VAdd(Head(s), SumSeq(Tail(s)))

PIdx == 0 .. NumMaxParticles - 1
RIdx == 0 .. NumMaxRigidBodies - 1
NumCells == GridSizeX * GridSizeY
CIdx == 0 .. NumCells - 1
\* allocation of devRigidBodyInitialPositions, in float3 entries
InitialPositionsAlloc == NumMaxRigidBodies * NUM_MAX_PARTICLE_PER_RIGID_BODY

\* ------------------------------------------------------------------ kernels
\* GetNumBlocksNumThreads: the number of threads a launch for k items runs
NumLaunched(k) == NumThreads * CeilDiv(k, NumThreads)

\* setDevArr_*<<<blocks(k), threads>>>(devArr + base, value, numValues)
SetDevArr(arr, base, value, numValues, launched) ==
    [i \in DOMAIN arr |->
        IF i >= base /\ i - base < numValues /\ i - base < launched
        THEN value ELSE arr[i]]

\* a copy to the start of the array, whatever the base
MemcpyToDeviceAtStart(arr, base, src) ==
    [i \in DOMAIN arr |-> IF i < Len(src) THEN src[i + 1] ELSE arr[i]]
\* cudaMemcpy(dev + base, &src[0], n * sizeof(float3), HostToDevice)
MemcpyToDevice(arr, base, src) ==
    [i \in DOMAIN arr |->
        IF i >= base /\ i - base < Len(src) THEN src[i - base + 1] ELSE arr[i]]

\* ------------------------------------------------------------------- state
VARIABLES
    numParticles,                  \* scene->numParticles
    numRigidBodies,                \* scene->numRigidBodies
    buf,                           \* the four float3 device buffers, by id
    devPositions,                  \* buffer ids held by the four pointers
    devNewPositions,
    devTempFloat3,
    devVelocities,
    devMasses,
    devInvMasses,
    devPhases,
    devSolidPhaseCounter,
    devRigidBodyParticleIdRange,
    devRigidBodyInitialPositions,
    devRigidBodyRotations,         \* quarter turns, 0 is the identity
    devRigidBodyCMs,
    devCellId,
    devParticleId,
    devSortedCellId,
    devSortedParticleId,
    devCellStart,
    devFluidLambdas,
    devFluidDensities,
    devFluidNormals,
    devOmegas,
    pc,                            \* position of the host inside update()
    call,                          \* arguments of the running update()
    subStep,                       \* i of the sub-step loop
    inner,                         \* j of the projection loop
    numUpdates,                    \* completed update() calls
    admittedBy,                    \* history: admission call of each particle
    numCalls,                      \* history: admission calls made
    lastCall,                      \* history: the last admission call
    oobInitialPositions,           \* history: indices written outside devRigidBodyInitialPositions
    devInvScaledMasses,            \* in 1e-3
    devTempStorage,                \* number of the allocation it points to, 0 is nullptr
    devTempStorageSize,
    tempRequests,                  \* history: the sizes passed to updateTempStorageSize
    launched,                      \* history: the kernels launched in the running sub-step
    written,                       \* history: <<buffer, index>> of the float3 entries ever written
    unwrittenReads,                \* history: <<kernel, buffer, index>> read before any write
    rotationDependsOnUnwritten,    \* history: a rotation was computed from such entries
    pinWritten,                    \* history: particles the pinning code wrote in the running update()
    velocityWritten                \* history: the velocities the last updateVelocity launch wrote

solverVars == <<numParticles, numRigidBodies, devMasses, devInvMasses, devPhases,
                devSolidPhaseCounter, devRigidBodyParticleIdRange,
                devRigidBodyInitialPositions>>
bufVars == <<buf, devPositions, devNewPositions, devTempFloat3, devVelocities>>
rigidVars == <<devRigidBodyRotations, devRigidBodyCMs>>
gridVars == <<devCellId, devParticleId, devSortedCellId, devSortedParticleId,
              devCellStart>>
fluidVars == <<devFluidLambdas, devFluidDensities, devFluidNormals, devOmegas>>
hostVars == <<pc, call, subStep, inner, numUpdates>>
histVars == <<admittedBy, numCalls, lastCall, oobInitialPositions>>
tempVars == <<devTempStorage, devTempStorageSize, tempRequests>>
traceVars == <<launched, written, unwrittenReads>>
vars == <<solverVars, bufVars, rigidVars, gridVars, fluidVars, hostVars, histVars,
          devInvScaledMasses, tempVars, traceVars, rotationDependsOnUnwritten, pinWritten, velocityWritten>>

\* contents the uninitialised devCellStart may hold
GarbageCellStart == { -1, 7 }

\* history: admittedBy[i] is <<number of the call, operation>> that admitted
\* particle i
NotAdmitted == <<0, "none">>
NoCall == [op |-> "none", n |-> 0, mass |-> 0, centroid |-> Zero2,
           numParticles |-> 0, numRigidBodies |-> 0, result |-> "none"]
NoUpdate == [numSubTimeStep |-> 0, deltaTime |-> 0, pickedParticleId |-> -1,
             pickedParticlePosition |-> Zero2, pickedParticleVelocity |-> Zero2]

\* -------------------------------------------------------------- admission
\* The admissions are functions of the part of the solver they touch, so that
\* the constructor and the callers run the same code.  `positions` is the
\* buffer devPositions points to.
EmptySolver ==
    [numParticles |-> 0,
     numRigidBodies |-> 0,
     positions |-> [i \in PIdx |-> Zero2],
     devMasses |-> [i \in PIdx |-> 0],
     devInvMasses |-> [i \in PIdx |-> 0],
     devPhases |-> [i \in PIdx |-> 0],
     devSolidPhaseCounter |-> SolidPhaseCounterInit,
     devRigidBodyParticleIdRange |-> [r \in RIdx |-> <<0, 0>>],
     devRigidBodyInitialPositions |-> [i \in 0 .. InitialPositionsAlloc - 1 |-> Zero2],
     admittedBy |-> [i \in PIdx |-> NotAdmitted],
     numCalls |-> 0,
     lastCall |-> NoCall,
     oobInitialPositions |-> {}]

\* the orders in which n threads can reach the atomicAdd: thread -> rank
Orders(n) == Permutations(0 .. n - 1)

\* setDevArr_counterIncrement: thread i stores atomicAdd(counter, incrementValue),
\* the threads reaching the atomicAdd in the order `rank`
setDevArr_counterIncrement(arr, base, counter, incrementValue, numValues, rank) ==
    [i \in DOMAIN arr |->
        IF i >= base /\ i - base < numValues
        THEN counter + incrementValue * rank[i - base] ELSE arr[i]]

\* setDevArr_devIntPtr: devArr[i] = *value
setDevArr_devIntPtr(arr, base, value, numValues) ==
    SetDevArr(arr, base, value, numValues, NumLaunched(numValues))

\* a counter that the admission of a rigid body leaves where it was
incrementLost(x) == x
\* increment: atomicAdd(x, 1)
increment(x) == x + 1

\* the capacity tests of the admissions
ExceedsMaxParticles(s, n) == s.numParticles + n >= NumMaxParticles
ExceedsMaxRigidBodies(s) == s.numRigidBodies + 1 >= NumMaxRigidBodies
\* glm::length(cm) >= 1e-5f with cm = sum / size; both sides are squared and
\* multiplied by (size * CentroidEpsInv)^2
CentroidOff(sum, size) ==
    Length2(sum) * CentroidEpsInv * CentroidEpsInv >= size * size

\* 1.0f / massPerParticle
Recip(massPerParticle) == TruncDiv(1, massPerParticle)

CallRecord(s, op, n, mass, centroid, result) ==
    [op |-> op, n |-> n, mass |-> mass, centroid |-> centroid,
     numParticles |-> s.numParticles, numRigidBodies |-> s.numRigidBodies,
     result |-> result]

\* a throw placed after the particle count has been advanced
ThrowLate(s, op, n, mass, centroid) ==
    [s EXCEPT !.lastCall = CallRecord(s, op, n, mass, centroid, "throw"),
              !.numCalls = @ + 1,
              !.numParticles = @ + n]
\* throw std::exception(...): nothing but the history changes
Throw(s, op, n, mass, centroid) ==
    [s EXCEPT !.lastCall = CallRecord(s, op, n, mass, centroid, "throw"),
              !.numCalls = @ + 1]

\* what the three admissions share: positions, masses, inverse masses, count
AppendBlock(s, op, positions, mass, centroid) ==
    LET n == Len(positions) IN
    [s EXCEPT
        !.positions = MemcpyToDevice(@, s.numParticles, positions),
        !.devMasses = SetDevArr(@, s.numParticles, mass, n, NumLaunched(n)),
        !.devInvMasses = SetDevArr(@, s.numParticles, Recip(mass), n, NumLaunched(n)),
        !.numParticles = @ + n,
        !.admittedBy = [i \in PIdx |->
                          IF i >= s.numParticles /\ i < s.numParticles + n
                          THEN <<s.numCalls + 1, op>> ELSE @[i]],
        !.numCalls = @ + 1,
        !.lastCall = CallRecord(s, op, n, mass, centroid, "ok")]

\* ParticleSolver::addGranulars
addGranulars(s, positions, massPerParticle, rank) ==
    LET n == Len(positions) IN
    IF ExceedsMaxParticles(s, n)
    THEN Throw(s, "addGranulars", n, massPerParticle, Zero2)
    ELSE [AppendBlock(s, "addGranulars", positions, massPerParticle, Zero2) EXCEPT
            !.devPhases = setDevArr_counterIncrement(@, s.numParticles,
                              s.devSolidPhaseCounter, 1, n, rank),
            !.devSolidPhaseCounter = @ + n]

\* ParticleSolver::addFluids
addFluids(s, positions, massPerParticle) ==
    LET n == Len(positions) IN
    IF ExceedsMaxParticles(s, n)
    THEN Throw(s, "addFluids", n, massPerParticle, Zero2)
    ELSE [AppendBlock(s, "addFluids", positions, massPerParticle, Zero2) EXCEPT
            !.devPhases = SetDevArr(@, s.numParticles, -1, n, NumLaunched(n))]

\* ParticleSolver::addRigidBody.  Entries of the rest offsets that fall past
\* the allocation of devRigidBodyInitialPositions are recorded and not stored.
addRigidBody(s, initialPositions, initialPositions_CM_Origin, massPerParticle) ==
    LET n == Len(initialPositions)
        sum == SumSeq(initialPositions_CM_Origin)
        size == Len(initialPositions_CM_Origin)
    IN
    IF ExceedsMaxParticles(s, n) \/ ExceedsMaxRigidBodies(s) \/ CentroidOff(sum, size)
    THEN Throw(s, "addRigidBody", n, massPerParticle, sum)
    ELSE [AppendBlock(s, "addRigidBody", initialPositions, massPerParticle, sum) EXCEPT
            !.devRigidBodyInitialPositions =
                MemcpyToDevice(@, s.numParticles, initialPositions_CM_Origin),
            !.oobInitialPositions = @ \cup
                { i \in s.numParticles .. s.numParticles + n - 1 :
                      i >= InitialPositionsAlloc },
            !.devPhases = setDevArr_devIntPtr(@, s.numParticles,
                              s.devSolidPhaseCounter, n),
            !.devRigidBodyParticleIdRange =
                [@ EXCEPT ![s.numRigidBodies] = <<s.numParticles, s.numParticles + n>>],
            !.devSolidPhaseCounter = increment(@),
            !.numRigidBodies = @ + 1]

\* the blocks of particles the callers admit
PairOverlapping == << <<-5, 40>>, <<10, 40>> >>
GranularBlocks == { PairOverlapping, << <<30, 12>> >> }
FluidPair == << <<10, 12>>, <<10, 30>> >>
FluidBlocks == { FluidPair, << <<30, 30>> >> }
\* <<world positions, rest offsets>>
BodyTwo == << << <<5, 10>>, <<5, 30>> >>, << <<0, -10>>, <<0, 10>> >> >>
BodyThree == << << <<0, 40>>, <<20, 40>>, <<40, 40>> >>,
                << <<-20, 0>>, <<0, 0>>, <<20, 0>> >> >>
BodyTwoFar == << << <<40, 15>>, <<40, 35>> >>, << <<0, -10>>, <<0, 10>> >> >>
BodyOffCentre == << << <<20, 20>>, <<40, 20>> >>, << <<0, 0>>, <<20, 0>> >> >>
RigidBlocks == { BodyTwo, BodyThree, BodyOffCentre }
Masses == { 1, -1 }

\* the solver of the running state, as the admissions see it
Solver ==
    [numParticles |-> numParticles,
     numRigidBodies |-> numRigidBodies,
     positions |-> buf[devPositions],
     devMasses |-> devMasses,
     devInvMasses |-> devInvMasses,
     devPhases |-> devPhases,
     devSolidPhaseCounter |-> devSolidPhaseCounter,
     devRigidBodyParticleIdRange |-> devRigidBodyParticleIdRange,
     devRigidBodyInitialPositions |-> devRigidBodyInitialPositions,
     admittedBy |-> admittedBy,
     numCalls |-> numCalls,
     lastCall |-> lastCall,
     oobInitialPositions |-> oobInitialPositions]

\* ------------------------------------------------------------- integrator
\* applyForces: velocities[i] += (0, -9.8, 0) * deltaTime (invMass is not read)
applyForces(velocities, n, deltaTime) ==
    [i \in PIdx |-> IF i >= n THEN velocities[i]
                    ELSE VAdd(velocities[i], VScale(<<0, GravityY>>, deltaTime))]

\* predictPositions: newPositions[i] = positions[i] + velocities[i] * deltaTime
predictPositions(newPositions, positions, velocities, n, deltaTime) ==
    [i \in PIdx |-> IF i >= n THEN newPositions[i]
                    ELSE VAdd(positions[i], VScale(velocities[i], deltaTime))]

\* updateVelocity: velocities[i] = (newPositions[i] - positions[i]) * invDeltaTime
updateVelocity(velocities, newPositions, positions, n, deltaTime) ==
    [i \in PIdx |-> IF i >= n THEN velocities[i]
                    ELSE VDiv(VSub(newPositions[i], positions[i]), deltaTime)]

PARTICLE_SLEEPING_EPSILON == 0

\* updatePositions: a solid closer than the threshold to its old position sleeps
\* (dist2 >= threshold * threshold is false when dist2 is NaN)
updatePositions(positions, newPositions, phases, threshold, n) ==
    [i \in PIdx |->
        IF i >= n THEN positions[i]
        ELSE IF \/ phases[i] < 0
                \/ /\ ~IsNaN(newPositions[i])
                   /\ ~IsNaN(positions[i])
                   /\ Length2(VSub(newPositions[i], positions[i]))
                          >= threshold * threshold
             THEN newPositions[i] ELSE positions[i]]

\* ------------------------------------------------------------------ planes
\* dot(planeOrigin - x, planeNormal) + radius
Penetration(x, plane) == Dot(VSub(plane.origin, x), plane.normal) + Radius

\* planeStabilize, one thread: the new <<positions[i], newPositions[i]>>
\* (distance <= 0 is false when distance is NaN)
planeStabilizeOne(position, newPosition, plane) ==
    LET distance == Penetration(position, plane) IN
    IF IsNaN(position) THEN <<NaN2, NaN2>>
    ELSE IF distance <= 0 THEN <<position, newPosition>>
    ELSE <<VAdd(position, VScale(plane.normal, distance)),
           VAdd(newPosition, VScale(plane.normal, distance))>>

FRICTION_STATIC == 0
FRICTION_DYNAMICS == 0

\* the particle moved one unit short of the plane
particlePlaneCollisionConstraintOneShort(newPosition, position, plane) ==
    LET distance == Penetration(newPosition, plane) IN
    IF IsNaN(newPosition) THEN NaN2
    ELSE IF distance <= 0 THEN newPosition
    ELSE VAdd(VScale(plane.normal, distance - 1), newPosition)
\* particlePlaneCollisionConstraint, one thread: the new newPositions[i].
\* min(FRICTION_DYNAMICS * -diffNormal / diffTangentLength, 1) is fminf: with
\* diffTangentLength = 0 the quotient is NaN and the result is 1.  A NaN
\* newPosition stays NaN; a NaN position makes the result NaN when the particle
\* penetrates.
particlePlaneCollisionConstraintOne(newPosition, position, plane) ==
    LET distance == Penetration(newPosition, plane)
        n == plane.normal
        diff == VSub(newPosition, position)
        diffNormal == Dot(diff, n)
        diffTangent == VSub(diff, VScale(n, diffNormal))
        diffTangentLength == ISqrt(Length2(diffTangent))
        resolvedPosition == VAdd(VScale(n, distance), newPosition)
        deltaX == VSub(resolvedPosition, position)
        tangentialDeltaX == VSub(deltaX, VScale(n, Dot(deltaX, n)))
    IN
    IF IsNaN(newPosition) THEN NaN2
    ELSE IF distance <= 0 THEN newPosition
    ELSE IF IsNaN(position) THEN NaN2
    ELSE IF diffTangentLength < FRICTION_STATIC * diffNormal
         THEN VSub(resolvedPosition, tangentialDeltaX)
         ELSE IF diffTangentLength = 0
              THEN VSub(resolvedPosition, tangentialDeltaX)
              ELSE VSub(resolvedPosition,
                        VDiv(VScale(tangentialDeltaX,
                                    Min(FRICTION_DYNAMICS * (-diffNormal),
                                        diffTangentLength)),
                             diffTangentLength))

\* the stabilize loop of update(): 2 rounds over scene->planes, each launch
\* taking the buffers the launch before left.  k counts the launches done.
RECURSIVE StabilizeFrom(_, _, _, _)
StabilizeFrom(positions, newPositions, n, k) ==
    IF k >= 2 * Len(Planes) THEN <<positions, newPositions>>
    ELSE LET plane == Planes[(k % Len(Planes)) + 1]
             out == [i \in PIdx |->
                        IF i >= n THEN <<positions[i], newPositions[i]>>
                        ELSE planeStabilizeOne(positions[i], newPositions[i], plane)]
         IN StabilizeFrom([i \in PIdx |-> out[i][1]], [i \in PIdx |-> out[i][2]],
                          n, k + 1)

\* one pass of "solving all plane collisions": one launch per plane, in order
RECURSIVE PlaneCollisionsFrom(_, _, _, _)
PlaneCollisionsFrom(newPositions, positions, n, k) ==
    IF k > Len(Planes) THEN newPositions
    ELSE PlaneCollisionsFrom(
             [i \in PIdx |->
                 IF i >= n THEN newPositions[i]
                 ELSE particlePlaneCollisionConstraintOne(newPositions[i],
                                                          positions[i], Planes[k])],
             positions, n, k + 1)

\* -------------------------------------------------------------------- grid
\* calcGridPos: make_int3((position - origin) / cellSize) truncates toward zero
\* (the conversion of NaN to int gives 0 on the device)
calcGridPos(position) ==
    IF IsNaN(position) THEN <<0, 0>> ELSE
    <<TruncDiv(position[1] - CellOrigin[1], CellSize),
      TruncDiv(position[2] - CellOrigin[2], CellSize)>>

positiveMod(dividend, divisor) == CRem(CRem(dividend, divisor) + divisor, divisor)

calcGridAddress(gridPos) ==
    positiveMod(gridPos[2], GridSizeY) * GridSizeX + positiveMod(gridPos[1], GridSizeX)

\* updateGridId: gridIds[i] = address of the cell of positions[i], particleIds[i] = i
updateGridId(gridIds, positions, n) ==
    [i \in PIdx |-> IF i >= n THEN gridIds[i]
                    ELSE calcGridAddress(calcGridPos(positions[i]))]
updateParticleId(particleIds, n) ==
    [i \in PIdx |-> IF i >= n THEN particleIds[i] ELSE i]

\* cub::DeviceRadixSort::SortPairs: the stable sort of the first n pairs by
\* key.  SortedIndex(keys, n)[k] is the index of the pair that comes k-th.
Before(keys, a, b) == keys[a] < keys[b] \/ (keys[a] = keys[b] /\ a < b)
SortedIndex(keys, n) ==
    [k \in 0 .. n - 1 |->
        CHOOSE a \in 0 .. n - 1 :
            Cardinality({ b \in 0 .. n - 1 : Before(keys, b, a) }) = k]
SortPairs(keysOut, keys, values, n) ==
    [k \in PIdx |-> IF k >= n THEN keysOut[k]
                    ELSE <<keys[SortedIndex(keys, n)[k]],
                           values[SortedIndex(keys, n)[k]]>>]

\* a thread that leaves the start of the first run unwritten
findStartIdOneNoFirst(cellStart, sortedGridIds, i) ==
    IF i > 0 /\ sortedGridIds[i] /= sortedGridIds[i - 1]
    THEN [cellStart EXCEPT ![sortedGridIds[i]] = i] ELSE cellStart
\* findStartId, thread i: the cell start array after the thread has run
findStartIdOne(cellStart, sortedGridIds, i) ==
    LET cell == sortedGridIds[i] IN
    IF i > 0
    THEN IF cell /= sortedGridIds[i - 1]
         THEN [cellStart EXCEPT ![cell] = i] ELSE cellStart
    ELSE [cellStart EXCEPT ![cell] = i]

\* findStartId: the n threads run one after another in the order `order`
\* (order[k] is the thread that runs k-th)
RECURSIVE findStartId(_, _, _, _, _)
findStartId(cellStart, sortedGridIds, n, order, k) ==
    IF k >= n THEN cellStart
    ELSE findStartId(findStartIdOne(cellStart, sortedGridIds, order[k]),
                     sortedGridIds, n, order, k + 1)

\* setDevArr_int<<<numBlocks, numThreads>>>(devCellStart, -1, numMaxParticles)
\* with the launch size computed for numParticles: the cells it resets
ResetCellStart(cellStart, n) ==
    [c \in CIdx |-> IF c < NumMaxParticles /\ c < NumLaunched(n) THEN -1
                    ELSE cellStart[c]]

\* -------------------------------------------------------- neighbour scan
\* fluidGridSearchOffset = ceil(fluidKernelRadius / cellSize)
FluidGridSearchOffset == CeilDiv(KernelRadius, CellSize)

\* the entries bucketStart + k, k = 0, 1, ... of one cell that a scan reads
\* before it breaks: the particle ids, in scan order
RECURSIVE BucketRun(_, _, _, _, _)
BucketRun(grid, gridAddress, bucketStart, n, k) ==
    IF k < NUM_MAX_PARTICLE_PER_CELL /\ k + bucketStart < n
       /\ grid.sortedCellId[bucketStart + k] = gridAddress
    THEN <<grid.sortedParticleId[bucketStart + k]>>
         \o BucketRun(grid, gridAddress, bucketStart, n, k + 1)
    ELSE << >>

\* the particles the loops over y, x and k visit around the cell `center`;
\* c counts the cells done, row by row
RECURSIVE ScanFrom(_, _, _, _)
ScanFrom(grid, center, n, c) ==
    LET w == 2 * FluidGridSearchOffset + 1
        x == center[1] - FluidGridSearchOffset + (c % w)
        y == center[2] - FluidGridSearchOffset + (c \div w)
        gridAddress == calcGridAddress(<<x, y>>)
        bucketStart == grid.cellStart[gridAddress]
    IN
    IF c >= w * w THEN << >>
    ELSE (IF bucketStart = -1 THEN << >>
          ELSE BucketRun(grid, gridAddress, bucketStart, n, 0))
         \o ScanFrom(grid, center, n, c + 1)

Scan(grid, position, n) == ScanFrom(grid, calcGridPos(position), n, 0)

RECURSIVE SumSeqInt(_)
SumSeqInt(s) == IF s = << >> THEN 0 ELSE Head(s) + SumSeqInt(Tail(s))
\* the sum of F(j) over the visited particles js
SumInt(js, F(_)) == SumSeqInt([k \in 1 .. Len(js) |-> F(js[k])])
SumVec(js, F(_)) == SumSeq([k \in 1 .. Len(js) |-> F(js[k])])

\* ------------------------------------------------------------- SPH kernels
\* Units.  Densities are in units of KernelConst1 (poly6Kernel(0) is
\* KernelRadius^6), gradients in units of |KernelConst2| (per rest density).
\* The relaxation, tension and viscosity parameters of update() are converted
\* to these units for radius 0.05, h = 0.115 and rest density 1000, and the
\* divisions are split so that every product fits 32 bits.
KernelSquaredRadius == KernelRadius * KernelRadius
\* scene->fluidRestDensity: 1000 against poly6Kernel(0) = 1034
RestDensity == 143000000

poly6Kernel(r2) ==
    IF r2 <= KernelSquaredRadius
    THEN (KernelSquaredRadius - r2) * (KernelSquaredRadius - r2) * (KernelSquaredRadius - r2)
    ELSE 0

\* KernelConst2 * (h - r)^2 * v / r with KernelConst2 = -1 unit
gradientSpikyKernel(v, r2) ==
    IF r2 <= KernelSquaredRadius /\ r2 > 0
    THEN LET r == ISqrt(r2)
             temp == KernelRadius - r
         IN VDiv(VScale(v, -(temp * temp)), r)
    ELSE Zero2

\* akinciSplineC in units of KernelConst3 (KernelConst4 is below one unit)
akinciSplineC(r) ==
    IF r < KernelRadius /\ r > 0
    THEN LET temp == (KernelRadius - r) * r
             temp3 == temp * temp * temp
         IN IF 2 * r >= KernelRadius THEN temp3 ELSE 2 * temp3
    ELSE 0

\* ------------------------------------------------------------ fluid solver
\* a guard that returns for the threads beyond the particles only
FluidKernelReturnsBeyond(phases, i, n) == i >= n
\* the early return of every fluid kernel: i >= numParticles || phases[i] > 0
FluidKernelReturns(phases, i, n) == i >= n \/ phases[i] > 0

\* fluidLambda, thread i: <<lambda, density>> (lambda in 1e-6, the constraint
\* in 1e-3; useAkinciCohesionTension is true)
fluidLambdaOne(newPositionsPrev, phases, grid, i, n) ==
    LET pi == newPositionsPrev[i]
        js == SelectSeq(Scan(grid, pi, n), LAMBDA j : phases[j] < 0)
        Dist2(j) == Length2(VSub(pi, newPositionsPrev[j]))
        Gradient(j) == VScale(gradientSpikyKernel(VSub(pi, newPositionsPrev[j]), Dist2(j)), -1)
        density == SumInt(js, LAMBDA j : poly6Kernel(Dist2(j)))
        gradientI == VScale(SumVec(js, Gradient), -1)
        sumGradient2 == SumInt(js, LAMBDA j : Length2(Gradient(j))) + Length2(gradientI)
        constraint == Max(TruncDiv(density - RestDensity, RestDensity \div 1000), 0)
        lambda == -TruncDiv(constraint * 10000, (24 * sumGradient2 + 300000) \div 100)
    IN <<lambda, density>>

\* fluidPosition, thread i: newPositionsNext[i]
fluidPositionOne(newPositionsPrev, lambdas, phases, grid, i, n) ==
    LET pi == newPositionsPrev[i]
        js == SelectSeq(Scan(grid, pi, n), LAMBDA j : i /= j /\ phases[j] < 0)
        Term(j) == LET diff == VSub(pi, newPositionsPrev[j]) IN
                   VScale(gradientSpikyKernel(diff, Length2(diff)),
                          (lambdas[i] + lambdas[j]) * 31)
        deltaPosition == VDiv(SumVec(js, Term), 1000000)
    IN VAdd(pi, deltaPosition)

\* fluidOmega, thread i: omegas[i] (the z component)
fluidOmegaOne(velocities, positions, phases, grid, i, n) ==
    LET pi == positions[i]
        js == SelectSeq(Scan(grid, pi, n), LAMBDA j : i /= j /\ phases[j] < 0)
        Term(j) == LET diff == VSub(pi, positions[j]) IN
                   Cross(VSub(velocities[j], velocities[i]),
                         gradientSpikyKernel(diff, Length2(diff)))
    IN SumInt(js, Term)

\* fluidVorticity, thread i: velocities[i]; cross(normal, omega) with omega
\* along z is (normal.y * omega, -normal.x * omega)
fluidVorticityOne(velocities, omegas, positions, phases, grid, i, n, deltaTime) ==
    LET pi == positions[i]
        js == SelectSeq(Scan(grid, pi, n), LAMBDA j : i /= j /\ phases[j] < 0)
        Term(j) == LET diff == VSub(pi, positions[j]) IN
                   VScale(gradientSpikyKernel(diff, Length2(diff)), Abs(omegas[j]))
        eta == SumVec(js, Term)
        len == ISqrt(Length2(eta))
    IN IF Length2(eta) > 0
       THEN VAdd(velocities[i],
                 VDiv(VDiv(VScale(<<eta[2], -eta[1]>>, omegas[i]), len),
                      TruncDiv(10000, 35 * deltaTime)))
       ELSE velocities[i]

\* fluidNormal, thread i: normals[i], in 1e-3
fluidNormalOne(positions, densities, phases, grid, i, n) ==
    LET pi == positions[i]
        js == SelectSeq(Scan(grid, pi, n), LAMBDA j : i /= j /\ phases[j] < 0)
        Term(j) == LET diff == VSub(pi, positions[j]) IN
                   VDiv(VScale(gradientSpikyKernel(diff, Length2(diff)), 2548000),
                        densities[j] \div 1000)
    IN SumVec(js, Term)

\* fluidAkinciTension, thread i: newVelocities[i]
fluidAkinciTensionOne(velocities, positions, normals, densities, phases, grid, i, n, deltaTime) ==
    LET pi == positions[i]
        js == SelectSeq(Scan(grid, pi, n), LAMBDA j : i /= j /\ phases[j] < 0)
        Term(j) ==
            LET diff == VSub(pi, positions[j])
                lenPiPj == ISqrt(Length2(diff))
                fCohesion == VDiv(VScale(diff, -277 * (akinciSplineC(lenPiPj) \div 1000)),
                                  lenPiPj)
                fCurvature == VDiv(VScale(VSub(normals[i], normals[j]), -6120), 1000)
                kij == TruncDiv(200 * (RestDensity \div 1000),
                                (densities[i] + densities[j]) \div 1000)
            IN IF lenPiPj > 0
               THEN VScale(VAdd(fCohesion, fCurvature), kij)
               ELSE Zero2
        fTension == SumVec(js, Term)
    IN VAdd(velocities[i], VDiv(VScale(fTension, deltaTime), 10000000))

\* fluidXSph, thread i: newVelocities[i]
fluidXSphOne(velocities, positions, phases, grid, i, n) ==
    LET pi == positions[i]
        js == SelectSeq(Scan(grid, pi, n), LAMBDA j : i /= j /\ phases[j] < 0)
        Term(j) == VScale(VSub(velocities[j], velocities[i]),
                          poly6Kernel(Length2(VSub(pi, positions[j]))) \div 1000)
    IN VAdd(velocities[i], VDiv(SumVec(js, Term), 716000))

\* ----------------------------------------------------------- shape matching
\* A rotation is a number of quarter turns (0 .. 3, counter-clockwise), the
\* rotations that map the integer lattice to itself; NaNRot is a quaternion
\* with NaN components.
NaNRot == 4

\* extract_rotation_matrix3(q) * v
Rotate(q, v) ==
    IF q = NaNRot \/ IsNaN(v) THEN NaN2
    ELSE IF q = 0 THEN v
    ELSE IF q = 1 THEN <<-v[2], v[1]>>
    ELSE IF q = 2 THEN <<-v[1], -v[2]>>
    ELSE <<v[2], -v[1]>>

\* The loop "for (int i = 0; i < 20; i++)" of thread 0.  omega is
\* omegaNumerator * (1 / fabs(denominator) + 1e-9): with a zero denominator it
\* is infinite or NaN and q becomes NaN, and NaN input keeps it NaN.  The angle
\* w = |omega| is rounded to whole quarter turns (pi is 355/113); a rounded
\* angle of zero stands for the exit w2 <= 1e-9.
RECURSIVE ExtractRotation(_, _, _, _)
ExtractRotation(q, ACol0, ACol1, i) ==
    IF i >= 20 THEN q
    ELSE IF q = NaNRot \/ IsNaN(ACol0) \/ IsNaN(ACol1) THEN NaNRot
    ELSE LET R0 == Rotate(q, <<1, 0>>)
             R1 == Rotate(q, <<0, 1>>)
             omegaNumerator == Cross(R0, ACol0) + Cross(R1, ACol1)
             denominator == Abs(Dot(R0, ACol0) + Dot(R1, ACol1))
             turns == (4 * 113 * Abs(omegaNumerator) + 355 * denominator)
                          \div (2 * 355 * denominator)
         IN IF denominator = 0 THEN NaNRot
            ELSE IF turns = 0 THEN q
            ELSE ExtractRotation((q + 4 + Sign(omegaNumerator) * (turns % 4)) % 4,
                                 ACol0, ACol1, i + 1)

\* initialPositions[particleId]; the model never reads past the allocation
ReadInitialPosition(initialPositions, particleId) ==
    IF particleId < InitialPositionsAlloc THEN initialPositions[particleId] ELSE Zero2

\* the threads of the block that pass "threadIdx.x < numParticles"
BlockThreads(particleRange) ==
    0 .. Min(NUM_MAX_PARTICLE_PER_RIGID_BODY, particleRange[2] - particleRange[1]) - 1

\* shapeMatchingAlphaOne, the block of one rigid body:
\* <<rotations[rigidBodyId], CMs[rigidBodyId], positions>>.  The block reduce
\* sums over the threads that call it.
shapeMatchingAlphaOne(rotation, positions, initialPositions, particleRange) ==
    LET numParticlesBody == particleRange[2] - particleRange[1]
        threads == [k \in 1 .. Cardinality(BlockThreads(particleRange)) |-> k - 1]
        Position(t) == positions[particleRange[1] + t]
        Qi(t) == ReadInitialPosition(initialPositions, particleRange[1] + t)
        CM == VDiv(SumVec(threads, Position), numParticlesBody)
        ACol0 == SumVec(threads, LAMBDA t : VScale(VSub(Position(t), CM), Qi(t)[1]))
        ACol1 == SumVec(threads, LAMBDA t : VScale(VSub(Position(t), CM), Qi(t)[2]))
        q == ExtractRotation(rotation, ACol0, ACol1, 0)
    IN <<q, CM,
         [i \in PIdx |->
             IF i >= particleRange[1] /\ i - particleRange[1] \in BlockThreads(particleRange)
             THEN VAdd(Rotate(q, Qi(i - particleRange[1])), CM)
             ELSE positions[i]]>>

\* the launch <<<numRigidBodies, NUM_MAX_PARTICLE_PER_RIGID_BODY>>>: the blocks
\* write disjoint particles, so they are run one after another
RECURSIVE ShapeMatchingFrom(_, _, _, _, _, _, _)
ShapeMatchingFrom(rotations, CMs, positions, initialPositions, ranges, numBodies, r) ==
    IF r >= numBodies THEN <<rotations, CMs, positions>>
    ELSE LET out == shapeMatchingAlphaOne(rotations[r], positions, initialPositions,
                                          ranges[r])
         IN ShapeMatchingFrom([rotations EXCEPT ![r] = out[1]],
                              [CMs EXCEPT ![r] = out[2]],
                              out[3], initialPositions, ranges, numBodies, r + 1)

\* --------------------------------------------------------- construction
\* what an uninitialised float3 buffer may hold: zeros, or unrelated values
GarbageFloat3Buffers ==
    { [i \in PIdx |-> Zero2], [i \in PIdx |-> <<37 - 11 * i, 5 * i * i - 14>>] }

\* the scenes the solver is constructed for: rigid bodies, granulars, fluids
FluidNearFloor == << <<10, 12>>, <<10, 17>> >>
Scenes ==
    { [rigidBodies |-> << >>, granulars |-> <<PairOverlapping>>, fluids |-> << >>],
      [rigidBodies |-> <<BodyTwo>>, granulars |-> << >>, fluids |-> <<FluidNearFloor>>],
      [rigidBodies |-> <<BodyThree>>, granulars |-> << << <<30, 12>> >> >>,
       fluids |-> << >>],
      [rigidBodies |-> << >>, granulars |-> << >>, fluids |-> <<FluidNearFloor>>],
      [rigidBodies |-> <<BodyTwo, BodyTwoFar>>, granulars |-> << >>, fluids |-> << >>] }
SceneMass == 1

\* the three loops of the constructor; a scene whose admission throws
\* constructs no solver
RECURSIVE AddRigidBodies(_, _)
AddRigidBodies(ss, bodies) ==
    IF bodies = << >> THEN ss
    ELSE AddRigidBodies(
             { addRigidBody(s, Head(bodies)[1], Head(bodies)[2], SceneMass) : s \in ss },
             Tail(bodies))
RECURSIVE AddGranularBlocks(_, _)
AddGranularBlocks(ss, blocks) ==
    IF blocks = << >> THEN ss
    ELSE AddGranularBlocks(
             UNION { { addGranulars(s, Head(blocks), SceneMass, rank) :
                           rank \in Orders(Len(Head(blocks))) } : s \in ss },
             Tail(blocks))
RECURSIVE AddFluidBlocks(_, _)
AddFluidBlocks(ss, blocks) ==
    IF blocks = << >> THEN ss
    ELSE AddFluidBlocks({ addFluids(s, Head(blocks), SceneMass) : s \in ss },
                        Tail(blocks))

\* ParticleSolver::ParticleSolver: the solvers it can leave for a scene
Constructed(scene) ==
    { s \in AddFluidBlocks(
                AddGranularBlocks(AddRigidBodies({EmptySolver}, scene.rigidBodies),
                                  scene.granulars),
                scene.fluids) :
          s.numCalls = Len(scene.rigidBodies) + Len(scene.granulars) + Len(scene.fluids)
          /\ s.numParticles = Cardinality({ i \in PIdx : s.admittedBy[i] /= NotAdmitted })
          /\ s.lastCall.result = "ok" }

\* the float3 entries written when the constructor or an admission returns:
\* the positions copied from the host (buffer 0) and the velocities set to
\* zero by cudaMemset (buffer 3)
WrittenByConstructor(n) ==
    { <<0, i>> : i \in 0 .. n - 1 } \cup { <<3, i>> : i \in PIdx }

\* the allocations and initialisations of the constructor around solver s
InitWith(s) ==
    /\ numParticles = s.numParticles
    /\ numRigidBodies = s.numRigidBodies
    /\ \E g \in GarbageFloat3Buffers :
          buf = [b \in 0 .. 3 |-> IF b = 0 THEN s.positions
                                  ELSE IF b = 2 THEN g
                                  ELSE [i \in PIdx |-> Zero2]]
    /\ devPositions = 0
    /\ devNewPositions = 1
    /\ devTempFloat3 = 2
    /\ devVelocities = 3
    /\ devMasses = s.devMasses
    /\ devInvMasses = s.devInvMasses
    /\ devPhases = s.devPhases
    /\ devSolidPhaseCounter = s.devSolidPhaseCounter
    /\ devRigidBodyParticleIdRange = s.devRigidBodyParticleIdRange
    /\ devRigidBodyInitialPositions = s.devRigidBodyInitialPositions
    /\ devRigidBodyRotations = [r \in RIdx |-> 0]
    /\ devRigidBodyCMs = [r \in RIdx |-> Zero2]
    /\ devCellId = [i \in PIdx |-> 0]
    /\ devParticleId = [i \in PIdx |-> 0]
    /\ devSortedCellId = [i \in PIdx |-> 0]
    /\ devSortedParticleId = [i \in PIdx |-> 0]
    /\ \E g \in GarbageCellStart : devCellStart = [c \in CIdx |-> g]
    /\ devFluidLambdas = [i \in PIdx |-> 0]
    /\ devFluidDensities = [i \in PIdx |-> 0]
    /\ devFluidNormals = [i \in PIdx |-> Zero2]
    /\ devOmegas = [i \in PIdx |-> 0]
    /\ pc = "idle"
    /\ call = NoUpdate
    /\ subStep = 0
    /\ inner = 0
    /\ numUpdates = 0
    /\ admittedBy = s.admittedBy
    /\ numCalls = s.numCalls
    /\ lastCall = s.lastCall
    /\ oobInitialPositions = s.oobInitialPositions
    /\ devInvScaledMasses = [i \in PIdx |-> 0]
    /\ devTempStorage = 0
    /\ devTempStorageSize = 0
    /\ tempRequests = << >>
    /\ launched = << >>
    /\ written = WrittenByConstructor(s.numParticles)
    /\ unwrittenReads = {}
    /\ rotationDependsOnUnwritten = FALSE
    /\ pinWritten = {}
    /\ velocityWritten = [i \in PIdx |-> Zero2]

\* the solver constructed for one of the scenes
Init == \E scene \in Scenes : \E s \in Constructed(scene) : InitWith(s)

\* the solver constructed for the empty scene
InitEmpty == InitWith(EmptySolver)

\* ------------------------------------------------- admission by the caller
SolverBecomes(s) ==
    /\ numParticles' = s.numParticles
    /\ numRigidBodies' = s.numRigidBodies
    /\ buf' = [buf EXCEPT ![devPositions] = s.positions]
    /\ devMasses' = s.devMasses
    /\ devInvMasses' = s.devInvMasses
    /\ devPhases' = s.devPhases
    /\ devSolidPhaseCounter' = s.devSolidPhaseCounter
    /\ devRigidBodyParticleIdRange' = s.devRigidBodyParticleIdRange
    /\ devRigidBodyInitialPositions' = s.devRigidBodyInitialPositions
    /\ admittedBy' = s.admittedBy
    /\ numCalls' = s.numCalls
    /\ lastCall' = s.lastCall
    /\ oobInitialPositions' = s.oobInitialPositions
    /\ written' = written \cup WrittenByConstructor(s.numParticles)
    /\ UNCHANGED <<devPositions, devNewPositions, devTempFloat3, devVelocities,
                   rigidVars, gridVars, fluidVars, hostVars, devInvScaledMasses,
                   tempVars, launched, unwrittenReads, rotationDependsOnUnwritten,
                   pinWritten, velocityWritten>>

AdmitGranulars ==
    /\ pc = "idle" /\ numCalls < MaxCalls
    /\ \E p \in GranularBlocks, m \in Masses :
          \E rank \in Orders(Len(p)) : SolverBecomes(addGranulars(Solver, p, m, rank))

AdmitFluids ==
    /\ pc = "idle" /\ numCalls < MaxCalls
    /\ \E p \in FluidBlocks, m \in Masses : SolverBecomes(addFluids(Solver, p, m))

AdmitRigidBody ==
    /\ pc = "idle" /\ numCalls < MaxCalls
    /\ \E b \in RigidBlocks, m \in Masses :
          SolverBecomes(addRigidBody(Solver, b[1], b[2], m))

NextAdmit == AdmitGranulars \/ AdmitFluids \/ AdmitRigidBody

\* the callers' admissions into a solver constructed empty
SpecAdmit == InitEmpty /\ [][NextAdmit]_vars

\* ------------------------------------------------------------------ update
\* the arguments update() is called with
\* <<pickedParticleId, pickedParticlePosition>>: particle 0 dragged to the
\* floor, and id 2, a particle of the larger scenes and no particle of the
\* scenes of two
PickedParticles == { <<0, <<30, 4>>>>, <<2, <<30, 35>>>> }
UpdateCalls ==
    { [numSubTimeStep |-> st, deltaTime |-> st, pickedParticleId |-> -1,
       pickedParticlePosition |-> Zero2, pickedParticleVelocity |-> Zero2] :
          st \in {1, 2} }
    \cup
    { [numSubTimeStep |-> 1, deltaTime |-> 1, pickedParticleId |-> p[1],
       pickedParticlePosition |-> p[2], pickedParticleVelocity |-> <<3, 0>>] :
          p \in PickedParticles }

\* float subDeltaTime = deltaTime / (float)numSubTimeStep
subDeltaTime == TruncDiv(call.deltaTime, call.numSubTimeStep)

Grid == [sortedCellId |-> devSortedCellId, sortedParticleId |-> devSortedParticleId,
         cellStart |-> devCellStart]

\* only the velocity stored
setParticleVelocityOnly(buffers, particleIndex, position, velocity) ==
    IF particleIndex < 0 \/ particleIndex >= numParticles THEN buffers
    ELSE [buffers EXCEPT ![devVelocities][particleIndex] = velocity]
\* setParticle: the buffers after the two setDevArr_float3 launches
setParticle(buffers, particleIndex, position, velocity) ==
    IF particleIndex < 0 \/ particleIndex >= numParticles THEN buffers
    ELSE [buffers EXCEPT ![devPositions][particleIndex] = position,
                         ![devVelocities][particleIndex] = velocity]

\* getParticlePosition
getParticlePosition(particleIndex) ==
    IF particleIndex < 0 \/ particleIndex >= numParticles THEN Zero2
    ELSE buf[devPositions][particleIndex]

pointerVars == <<devPositions, devNewPositions, devTempFloat3, devVelocities>>

\* an assignment in place of the exchange: both pointers designate b's buffer
swapAssign(a, b) == <<b, b>>
\* std::swap of two pointers: <<a, b>> afterwards
swap(a, b) == <<b, a>>

\* the buffer reallocated for every request
updateTempStorageSizeAlways(storage, storageSize, size) == <<storage + 1, size>>
\* ParticleSolver::updateTempStorageSize: <<devTempStorage, devTempStorageSize>>
\* afterwards; cudaMalloc returns a new allocation
updateTempStorageSize(storage, storageSize, size) ==
    IF size > storageSize THEN <<storage + 1, size>> ELSE <<storage, storageSize>>

\* the temp storage size cub::DeviceRadixSort::SortPairs(NULL, ...) reports for
\* n items: one unit per item
SortTempStorageBytes(n) == n

\* computeInvScaledMasses: 1 / (pow(e, -k * height) * masses[i]), in 1e-3, with
\* e^x taken to the second order; k * height is k * y / 200.  Nothing reads
\* the buffer, and a NaN height is stored as 0.
MASS_SCALING_CONSTANT == 2
computeInvScaledMasses(invScaledMasses, masses, positions, k, n) ==
    [i \in PIdx |->
        IF i >= n THEN invScaledMasses[i]
        ELSE IF IsNaN(positions[i]) \/ masses[i] = 0 THEN 0
        ELSE LET ky == k * positions[i][2] IN
             TruncDiv(1000 + 5 * ky + (ky * ky) \div 80, masses[i])]

ParticleIds == 0 .. numParticles - 1
\* the particles a fluid kernel does not return for
FluidIds == { i \in ParticleIds : ~FluidKernelReturns(devPhases, i, numParticles) }
\* the particles the threads of shapeMatchingAlphaOne reposition
BodyThreadIds ==
    UNION { { devRigidBodyParticleIdRange[r][1] + t :
                t \in BlockThreads(devRigidBodyParticleIdRange[r]) } :
            r \in 0 .. numRigidBodies - 1 }
Entries(buffer, ids) == { <<buffer, i>> : i \in ids }
\* the entries in which two arrays differ (a write of NaN counts)
Changed(old, new) == { i \in PIdx : old[i] /= new[i] \/ IsNaN(new[i]) }

\* the particles whose position or velocity differs between two buffer states
PinDiff(old, new) ==
    { i \in PIdx : old[devPositions][i] /= new[devPositions][i]
                    \/ old[devVelocities][i] /= new[devVelocities][i] }

\* history of a launch: the kernels, the float3 entries they read and write
Launch(kernels, reads, writes) ==
    /\ launched' = launched \o kernels
    /\ unwrittenReads' = unwrittenReads \cup
                            { <<kernels[1], e[1], e[2]>> : e \in reads \ written }
    /\ written' = written \cup writes

\* a launch the host never gets past
GotoNever(next) ==
    /\ pc' = "launching"
    /\ UNCHANGED <<call, numUpdates, solverVars, histVars>>
\* a host that skips the normal and tension launches, and their swap
useAkinciCohesionTensionOff == FALSE
\* bool useAkinciCohesionTension = true, the host's branch before fluidNormal
useAkinciCohesionTension == TRUE

\* the host moves on; nothing but the buffers named by the action changes
Goto(next) ==
    /\ pc' = next
    /\ UNCHANGED <<call, numUpdates, solverVars, histVars>>

\* update() is entered
UpdateBegin ==
    /\ pc = "idle"
    /\ numUpdates < MaxUpdates
    /\ \E c \in UpdateCalls : call' = c
    /\ pc' = "applyForces"
    /\ subStep' = 0
    /\ inner' = 0
    /\ launched' = << >>
    /\ pinWritten' = {}
    /\ velocityWritten' = [i \in PIdx |-> Zero2]
    /\ UNCHANGED <<numUpdates, solverVars, histVars, bufVars, rigidVars, gridVars,
                   fluidVars, devInvScaledMasses, tempVars, written, unwrittenReads,
                   rotationDependsOnUnwritten>>

ApplyForces ==
    /\ pc = "applyForces"
    /\ buf' = [buf EXCEPT ![devVelocities] = applyForces(@, numParticles, subDeltaTime)]
    /\ launched' = <<"applyForces">>
    /\ unwrittenReads' = unwrittenReads \cup
          { <<"applyForces", e[1], e[2]>> :
                e \in Entries(devVelocities, ParticleIds) \ written }
    /\ written' = written \cup Entries(devVelocities, ParticleIds)
    /\ Goto("pin")
    /\ UNCHANGED <<pointerVars, rigidVars, gridVars, fluidVars, subStep, inner,
                   devInvScaledMasses, tempVars, rotationDependsOnUnwritten, pinWritten, velocityWritten>>

\* "we need to make picked particle immovable", at the head of the sub-step
PinPicked ==
    /\ pc = "pin"
    /\ buf' = IF call.pickedParticleId >= 0 /\ call.pickedParticleId < numParticles
              THEN setParticle(buf, call.pickedParticleId, call.pickedParticlePosition,
                               Zero2)
              ELSE buf
    /\ IF call.pickedParticleId >= 0 /\ call.pickedParticleId < numParticles
       THEN /\ Launch(<<"setParticle">>, {},
                      Entries(devPositions, {call.pickedParticleId})
                          \cup Entries(devVelocities, {call.pickedParticleId}))
            /\ pinWritten' = pinWritten \cup PinDiff(buf, buf') \cup {call.pickedParticleId}
       ELSE /\ UNCHANGED traceVars
            /\ pinWritten' = pinWritten \cup PinDiff(buf, buf')
    /\ Goto("predictPositions")
    /\ UNCHANGED <<pointerVars, rigidVars, gridVars, fluidVars, subStep, inner,
                   devInvScaledMasses, tempVars, rotationDependsOnUnwritten,
                   velocityWritten>>

PredictPositions ==
    /\ pc = "predictPositions"
    /\ buf' = [buf EXCEPT ![devNewPositions] =
                  predictPositions(@, buf[devPositions], buf[devVelocities],
                                   numParticles, subDeltaTime)]
    /\ Launch(<<"predictPositions">>,
              Entries(devPositions, ParticleIds) \cup Entries(devVelocities, ParticleIds),
              Entries(devNewPositions, ParticleIds))
    /\ Goto("computeInvScaledMasses")
    /\ UNCHANGED <<pointerVars, rigidVars, gridVars, fluidVars, subStep, inner,
                   devInvScaledMasses, tempVars, rotationDependsOnUnwritten, pinWritten, velocityWritten>>

\* the kernel handed devInvMasses as its output
ComputeInvScaledMassesInPlace ==
    /\ pc = "computeInvScaledMasses"
    /\ devInvMasses' = computeInvScaledMasses(devInvMasses, devMasses, buf[devPositions],
                                              MASS_SCALING_CONSTANT, numParticles)
    /\ Launch(<<"computeInvScaledMasses">>, Entries(devPositions, ParticleIds), {})
    /\ pc' = "planeStabilize"
    /\ UNCHANGED <<call, numUpdates, histVars, numParticles, numRigidBodies, devMasses,
                   devPhases, devSolidPhaseCounter, devRigidBodyParticleIdRange,
                   devRigidBodyInitialPositions, devInvScaledMasses, bufVars, rigidVars,
                   gridVars, fluidVars, subStep, inner, tempVars,
                   rotationDependsOnUnwritten, pinWritten, velocityWritten>>
\* compute scaled masses (their reader, the contact kernel, is not launched)
ComputeInvScaledMasses ==
    /\ pc = "computeInvScaledMasses"
    /\ devInvScaledMasses' = computeInvScaledMasses(devInvScaledMasses, devMasses,
                                 buf[devPositions], MASS_SCALING_CONSTANT, numParticles)
    /\ Launch(<<"computeInvScaledMasses">>, Entries(devPositions, ParticleIds), {})
    /\ Goto("planeStabilize")
    /\ UNCHANGED <<bufVars, rigidVars, gridVars, fluidVars, subStep, inner, tempVars,
                   rotationDependsOnUnwritten, pinWritten, velocityWritten>>

\* the stabilize iterations
PlaneStabilize ==
    /\ pc = "planeStabilize"
    /\ LET out == StabilizeFrom(buf[devPositions], buf[devNewPositions], numParticles, 0)
       IN buf' = [buf EXCEPT ![devPositions] = out[1], ![devNewPositions] = out[2]]
    /\ Launch([k \in 1 .. 2 * Len(Planes) |-> "planeStabilize"],
              Entries(devPositions, ParticleIds) \cup Entries(devNewPositions, ParticleIds),
              {})
    /\ Goto("updateGrid")
    /\ UNCHANGED <<pointerVars, rigidVars, gridVars, fluidVars, subStep, inner,
                   devInvScaledMasses, tempVars, rotationDependsOnUnwritten, pinWritten, velocityWritten>>

\* ParticleSolver::updateGrid
UpdateGrid ==
    /\ pc = "updateGrid"
    /\ LET cellId == updateGridId(devCellId, buf[devNewPositions], numParticles)
           particleId == updateParticleId(devParticleId, numParticles)
           sorted == SortPairs([k \in PIdx |-> <<devSortedCellId[k], devSortedParticleId[k]>>],
                               cellId, particleId, numParticles)
           sortedCellId == [k \in PIdx |-> sorted[k][1]]
           temp == updateTempStorageSize(devTempStorage, devTempStorageSize,
                                         SortTempStorageBytes(numParticles))
       IN /\ devCellId' = cellId
          /\ devParticleId' = particleId
          /\ devSortedCellId' = sortedCellId
          /\ devSortedParticleId' = [k \in PIdx |-> sorted[k][2]]
          /\ \E order \in Orders(numParticles) :
                devCellStart' = findStartId(ResetCellStart(devCellStart, numParticles),
                                            sortedCellId, numParticles, order, 0)
          /\ devTempStorage' = temp[1]
          /\ devTempStorageSize' = temp[2]
          /\ tempRequests' = Append(tempRequests,
                                    <<SortTempStorageBytes(numParticles), temp[1], temp[2]>>)
    /\ inner' = 0
    /\ Launch(<<"updateGrid">>, Entries(devNewPositions, ParticleIds), {})
    /\ Goto("planeCollision")
    /\ UNCHANGED <<bufVars, rigidVars, fluidVars, subStep, devInvScaledMasses,
                   rotationDependsOnUnwritten, pinWritten, velocityWritten>>

\* solving all plane collisions
PlaneCollision ==
    /\ pc = "planeCollision"
    /\ buf' = [buf EXCEPT ![devNewPositions] =
                  PlaneCollisionsFrom(@, buf[devPositions], numParticles, 1)]
    /\ Launch([k \in 1 .. Len(Planes) |-> "planeCollision"],
              Entries(devNewPositions, ParticleIds),
              Entries(devNewPositions,
                      Changed(buf[devNewPositions], buf'[devNewPositions])))
    /\ Goto("fluidLambda")
    /\ UNCHANGED <<pointerVars, rigidVars, gridVars, fluidVars, subStep, inner,
                   devInvScaledMasses, tempVars, rotationDependsOnUnwritten, pinWritten, velocityWritten>>

FluidLambda ==
    /\ pc = "fluidLambda"
    /\ LET out == [i \in PIdx |->
                      IF FluidKernelReturns(devPhases, i, numParticles)
                      THEN <<devFluidLambdas[i], devFluidDensities[i]>>
                      ELSE fluidLambdaOne(buf[devNewPositions], devPhases, Grid, i,
                                          numParticles)]
       IN /\ devFluidLambdas' = [i \in PIdx |-> out[i][1]]
          /\ devFluidDensities' = [i \in PIdx |-> out[i][2]]
    /\ Launch(<<"fluidLambda">>, Entries(devNewPositions, FluidIds), {})
    /\ Goto("fluidPosition")
    /\ UNCHANGED <<bufVars, rigidVars, gridVars, devFluidNormals, devOmegas, subStep,
                   inner, devInvScaledMasses, tempVars, rotationDependsOnUnwritten,
                   pinWritten, velocityWritten>>

\* fluidPosition into devTempFloat3, then std::swap(devTempFloat3, devNewPositions)
FluidPosition ==
    /\ pc = "fluidPosition"
    /\ buf' = [buf EXCEPT ![devTempFloat3] =
                  [i \in PIdx |->
                      IF FluidKernelReturns(devPhases, i, numParticles) THEN @[i]
                      ELSE fluidPositionOne(buf[devNewPositions], devFluidLambdas,
                                            devPhases, Grid, i, numParticles)]]
    /\ devTempFloat3' = swap(devTempFloat3, devNewPositions)[1]
    /\ devNewPositions' = swap(devTempFloat3, devNewPositions)[2]
    /\ Launch(<<"fluidPosition">>, Entries(devNewPositions, FluidIds),
              Entries(devTempFloat3, FluidIds))
    /\ IF numRigidBodies > 0
       THEN Goto("shapeMatching") /\ UNCHANGED inner
       ELSE /\ inner' = inner + 1
            /\ Goto(IF inner + 1 < 2 THEN "planeCollision" ELSE "updateVelocity")
    /\ UNCHANGED <<devPositions, devVelocities, rigidVars, gridVars, fluidVars, subStep,
                   devInvScaledMasses, tempVars, rotationDependsOnUnwritten, pinWritten, velocityWritten>>

\* the positions shape matching would read had the entries no kernel has
\* written held other values
OtherUnwritten(positions, buffer) ==
    [i \in PIdx |->
        IF <<buffer, i>> \in written THEN positions[i]
        ELSE IF positions[i] = Zero2 THEN <<37 - 11 * i, 5 * i * i - 14>> ELSE Zero2]

\* solve all rigidbody constraints
ShapeMatching ==
    /\ pc = "shapeMatching"
    /\ LET out == ShapeMatchingFrom(devRigidBodyRotations, devRigidBodyCMs,
                                    buf[devNewPositions], devRigidBodyInitialPositions,
                                    devRigidBodyParticleIdRange, numRigidBodies, 0)
           other == ShapeMatchingFrom(devRigidBodyRotations, devRigidBodyCMs,
                                      OtherUnwritten(buf[devNewPositions], devNewPositions),
                                      devRigidBodyInitialPositions,
                                      devRigidBodyParticleIdRange, numRigidBodies, 0)
       IN /\ devRigidBodyRotations' = out[1]
          /\ devRigidBodyCMs' = out[2]
          /\ buf' = [buf EXCEPT ![devNewPositions] = out[3]]
          /\ rotationDependsOnUnwritten' =
                (rotationDependsOnUnwritten \/ out[1] /= other[1])
    /\ inner' = inner + 1
    /\ IF numRigidBodies > 0
       THEN Launch(<<"shapeMatching">>, Entries(devNewPositions, BodyThreadIds),
                   Entries(devNewPositions, BodyThreadIds))
       ELSE UNCHANGED traceVars
    /\ Goto(IF inner + 1 < 2 THEN "planeCollision" ELSE "updateVelocity")
    /\ UNCHANGED <<pointerVars, gridVars, fluidVars, subStep, devInvScaledMasses,
                   tempVars, pinWritten, velocityWritten>>

UpdateVelocity ==
    /\ pc = "updateVelocity"
    /\ buf' = [buf EXCEPT ![devVelocities] =
                  updateVelocity(@, buf[devNewPositions], buf[devPositions],
                                 numParticles, subDeltaTime)]
    /\ Launch(<<"updateVelocity">>,
              Entries(devNewPositions, ParticleIds) \cup Entries(devPositions, ParticleIds),
              Entries(devVelocities, ParticleIds))
    /\ velocityWritten' = buf'[devVelocities]
    /\ Goto("updatePositions")
    /\ UNCHANGED <<pointerVars, rigidVars, gridVars, fluidVars, subStep, inner,
                   devInvScaledMasses, tempVars, rotationDependsOnUnwritten, pinWritten>>

UpdatePositions ==
    /\ pc = "updatePositions"
    /\ buf' = [buf EXCEPT ![devPositions] =
                  updatePositions(@, buf[devNewPositions], devPhases,
                                  PARTICLE_SLEEPING_EPSILON, numParticles)]
    /\ Launch(<<"updatePositions">>,
              Entries(devNewPositions, ParticleIds) \cup Entries(devPositions, ParticleIds),
              Entries(devPositions, ParticleIds))
    /\ Goto("fluidOmega")
    /\ UNCHANGED <<pointerVars, rigidVars, gridVars, fluidVars, subStep, inner,
                   devInvScaledMasses, tempVars, rotationDependsOnUnwritten, pinWritten, velocityWritten>>

\* vorticity confinement part 1
FluidOmega ==
    /\ pc = "fluidOmega"
    /\ devOmegas' = [i \in PIdx |->
                        IF FluidKernelReturns(devPhases, i, numParticles) THEN devOmegas[i]
                        ELSE fluidOmegaOne(buf[devVelocities], buf[devNewPositions],
                                           devPhases, Grid, i, numParticles)]
    /\ Launch(<<"fluidOmega">>,
              Entries(devVelocities, FluidIds) \cup Entries(devNewPositions, FluidIds), {})
    /\ Goto("fluidVorticity")
    /\ UNCHANGED <<bufVars, rigidVars, gridVars, devFluidLambdas, devFluidDensities,
                   devFluidNormals, subStep, inner, devInvScaledMasses, tempVars,
                   rotationDependsOnUnwritten, pinWritten, velocityWritten>>

\* vorticity confinement part 2 (in place on devVelocities)
FluidVorticity ==
    /\ pc = "fluidVorticity"
    /\ buf' = [buf EXCEPT ![devVelocities] =
                  [i \in PIdx |->
                      IF FluidKernelReturns(devPhases, i, numParticles) THEN @[i]
                      ELSE fluidVorticityOne(buf[devVelocities], devOmegas,
                                             buf[devNewPositions], devPhases, Grid, i,
                                             numParticles, subDeltaTime)]]
    /\ Launch(<<"fluidVorticity">>,
              Entries(devVelocities, FluidIds) \cup Entries(devNewPositions, FluidIds),
              Entries(devVelocities, FluidIds))
    /\ Goto(IF useAkinciCohesionTension THEN "fluidNormal" ELSE "fluidXSph")
    /\ UNCHANGED <<pointerVars, rigidVars, gridVars, fluidVars, subStep, inner,
                   devInvScaledMasses, tempVars, rotationDependsOnUnwritten, pinWritten, velocityWritten>>

\* useAkinciCohesionTension is true
FluidNormal ==
    /\ pc = "fluidNormal"
    /\ devFluidNormals' =
          [i \in PIdx |->
              IF FluidKernelReturns(devPhases, i, numParticles) THEN devFluidNormals[i]
              ELSE fluidNormalOne(buf[devNewPositions], devFluidDensities, devPhases,
                                  Grid, i, numParticles)]
    /\ Launch(<<"fluidNormal">>, Entries(devNewPositions, FluidIds), {})
    /\ Goto("fluidAkinciTension")
    /\ UNCHANGED <<bufVars, rigidVars, gridVars, devFluidLambdas, devFluidDensities,
                   devOmegas, subStep, inner, devInvScaledMasses, tempVars,
                   rotationDependsOnUnwritten, pinWritten, velocityWritten>>

\* fluidAkinciTension into devTempFloat3, then std::swap(devVelocities, devTempFloat3)
FluidAkinciTension ==
    /\ pc = "fluidAkinciTension"
    /\ buf' = [buf EXCEPT ![devTempFloat3] =
                  [i \in PIdx |->
                      IF FluidKernelReturns(devPhases, i, numParticles) THEN @[i]
                      ELSE fluidAkinciTensionOne(buf[devVelocities], buf[devNewPositions],
                                                 devFluidNormals, devFluidDensities,
                                                 devPhases, Grid, i, numParticles,
                                                 call.deltaTime)]]
    /\ devVelocities' = swap(devVelocities, devTempFloat3)[1]
    /\ devTempFloat3' = swap(devVelocities, devTempFloat3)[2]
    /\ Launch(<<"fluidAkinciTension">>,
              Entries(devVelocities, FluidIds) \cup Entries(devNewPositions, FluidIds),
              Entries(devTempFloat3, FluidIds))
    /\ Goto("fluidXSph")
    /\ UNCHANGED <<devPositions, devNewPositions, rigidVars, gridVars, fluidVars,
                   subStep, inner, devInvScaledMasses, tempVars,
                   rotationDependsOnUnwritten, pinWritten, velocityWritten>>

\* fluidXSph into devTempFloat3, then std::swap(devVelocities, devTempFloat3);
\* the end of the sub-step
FluidXSph ==
    /\ pc = "fluidXSph"
    /\ buf' = [buf EXCEPT ![devTempFloat3] =
                  [i \in PIdx |->
                      IF FluidKernelReturns(devPhases, i, numParticles) THEN @[i]
                      ELSE fluidXSphOne(buf[devVelocities], buf[devNewPositions],
                                        devPhases, Grid, i, numParticles)]]
    /\ devVelocities' = swap(devVelocities, devTempFloat3)[1]
    /\ devTempFloat3' = swap(devVelocities, devTempFloat3)[2]
    /\ subStep' = subStep + 1
    /\ Launch(<<"fluidXSph">>,
              Entries(devVelocities, FluidIds) \cup Entries(devNewPositions, FluidIds),
              Entries(devTempFloat3, FluidIds))
    /\ Goto(IF subStep + 1 < call.numSubTimeStep THEN "applyForces" ELSE "finalPin")
    /\ UNCHANGED <<devPositions, devNewPositions, rigidVars, gridVars, fluidVars, inner,
                   devInvScaledMasses, tempVars, rotationDependsOnUnwritten, pinWritten, velocityWritten>>

\* "we need to make picked particle immovable", after the sub-steps; update()
\* returns
FinalPin ==
    /\ pc = "finalPin"
    /\ buf' = IF call.pickedParticleId >= 0 /\ call.pickedParticleId < numParticles
              THEN setParticle(buf, call.pickedParticleId,
                               getParticlePosition(call.pickedParticleId),
                               call.pickedParticleVelocity)
              ELSE buf
    /\ pinWritten' = pinWritten \cup PinDiff(buf, buf')
    /\ pc' = "idle"
    /\ numUpdates' = numUpdates + 1
    /\ UNCHANGED <<call, solverVars, histVars, pointerVars, rigidVars, gridVars,
                   fluidVars, subStep, inner, devInvScaledMasses, tempVars, traceVars,
                   rotationDependsOnUnwritten, velocityWritten>>

\* ------------------------------------------------ the contact kernel alone
\* particleParticleCollisionConstraint is launched by nothing: its launch in
\* update() is commented out.  Here it runs where that launch stands, after
\* the plane collisions of the first constraint round, on the buffers the
\* commented launch names, and writes the temp buffer.

\* the bucket loop of the kernel: for (k = 0; k + bucketStart < numParticles; k++)
RECURSIVE ContactBucketRun(_, _, _, _, _)
ContactBucketRun(grid, gridAddress, bucketStart, n, k) ==
    IF k + bucketStart < n /\ grid.sortedCellId[bucketStart + k] = gridAddress
    THEN <<grid.sortedParticleId[bucketStart + k]>>
         \o ContactBucketRun(grid, gridAddress, bucketStart, n, k + 1)
    ELSE << >>

\* the loops from centerGridPos - 1 to centerGridPos + 1
RECURSIVE ContactScanFrom(_, _, _, _)
ContactScanFrom(grid, center, n, c) ==
    LET x == center[1] - 1 + (c % 3)
        y == center[2] - 1 + (c \div 3)
        gridAddress == calcGridAddress(<<x, y>>)
        bucketStart == grid.cellStart[gridAddress]
    IN
    IF c >= 9 THEN << >>
    ELSE (IF bucketStart = -1 THEN << >>
          ELSE ContactBucketRun(grid, gridAddress, bucketStart, n, 0))
         \o ContactScanFrom(grid, center, n, c + 1)

\* if (i != particleId2 && phases[i] != phases[particleId2])
ContactCandidate(phases, i, particleId2) ==
    i /= particleId2 /\ phases[i] /= phases[particleId2]

\* the visited particles the kernel takes for contact candidates of i
ContactCandidates(newPositionsPrev, phases, grid, i, n) ==
    SelectSeq(ContactScanFrom(grid, calcGridPos(newPositionsPrev[i]), n, 0),
              LAMBDA j : ContactCandidate(phases, i, j))

\* deltaXi = weight1 * diff * (2 * radius / dist - 1) for a candidate closer
\* than 2 * radius, else nothing; 0 / 0 and 0 * inf are NaN
ContactDelta(newPositionsPrev, invMasses, i, j) ==
    LET diff == VSub(newPositionsPrev[i], newPositionsPrev[j])
        dist == ISqrt(Length2(diff))
    IN IF IsNaN(diff) THEN Zero2
       ELSE IF Length2(diff) >= 4 * Radius * Radius THEN Zero2
       ELSE IF dist = 0 \/ invMasses[i] + invMasses[j] = 0 THEN NaN2
       ELSE VDiv(VScale(diff, (2 * Radius - dist) * invMasses[i]),
                 dist * (invMasses[i] + invMasses[j]))

\* thread i: newPositionsNext[i] = xiPrev + sumDeltaXi (the friction terms are
\* zero, FRICTION_STATIC and FRICTION_DYNAMICS being zero)
particleParticleCollisionConstraintOne(newPositionsPrev, invMasses, phases, grid, i, n) ==
    LET js == ContactCandidates(newPositionsPrev, phases, grid, i, n)
    IN VAdd(newPositionsPrev[i],
            SumSeq([k \in 1 .. Len(js) |->
                      ContactDelta(newPositionsPrev, invMasses, i, js[k])]))

ParticleParticleCollision ==
    /\ pc = "fluidLambda"
    /\ buf' = [buf EXCEPT ![devTempFloat3] =
                  [i \in PIdx |->
                      IF i >= numParticles THEN @[i]
                      ELSE particleParticleCollisionConstraintOne(
                               buf[devNewPositions], devInvScaledMasses, devPhases,
                               Grid, i, numParticles)]]
    /\ Launch(<<"particleParticleCollision">>, Entries(devNewPositions, ParticleIds),
              Entries(devTempFloat3, ParticleIds))
    /\ Goto("contacts")
    /\ UNCHANGED <<pointerVars, rigidVars, gridVars, fluidVars, subStep, inner,
                   devInvScaledMasses, tempVars, rotationDependsOnUnwritten, pinWritten, velocityWritten>>

\* two particles, the second at an offset from the first: in contact along
\* x, along y and diagonally, and apart
ContactOffsets == { <<15, 0>>, <<0, 15>>, <<12, 9>>, <<25, 0>> }
ContactPair(o) == << <<10, 30>>, <<10 + o[1], 30 + o[2]>> >>
BodyClose == << << <<10, 30>>, <<24, 30>> >>, << <<-7, 0>>, <<7, 0>> >> >>
ContactScenes ==
    { [rigidBodies |-> << >>, granulars |-> <<ContactPair(o)>>, fluids |-> << >>] :
          o \in ContactOffsets }
    \cup
    { [rigidBodies |-> << >>, granulars |-> << <<ContactPair(o)[1]>> >>,
       fluids |-> << <<ContactPair(o)[2]>> >>] : o \in ContactOffsets }
    \cup
    { [rigidBodies |-> << >>, granulars |-> << >>, fluids |-> <<ContactPair(o)>>] :
          o \in ContactOffsets }
    \cup
    { [rigidBodies |-> <<BodyClose>>, granulars |-> << >>, fluids |-> << >>] }

InitContact == \E scene \in ContactScenes : \E s \in Constructed(scene) : InitWith(s)

NextContact ==
    \/ UpdateBegin
    \/ ApplyForces
    \/ PinPicked
    \/ PredictPositions
    \/ ComputeInvScaledMasses
    \/ PlaneStabilize
    \/ UpdateGrid
    \/ PlaneCollision
    \/ ParticleParticleCollision

SpecContact == InitContact /\ [][NextContact]_vars

\* ------------------------------------------------- update, a pinned particle
\* a mass of +infinity, admitted like any other: 1.0f / massPerParticle is 0
InfiniteMass == 1000000
\* the solver holding a rigid body and one block of granulars of infinite mass
InitPinned ==
    \E rank \in Orders(Len(PairOverlapping)) :
        InitWith(addGranulars(addRigidBody(EmptySolver, BodyTwo[1], BodyTwo[2], SceneMass),
                              PairOverlapping, InfiniteMass, rank))

\* ------------------------------------------------- temporary storage alone
\* one call of updateTempStorageSize, for any size; tempRequests records the
\* size asked for, and the buffer and its size after the call
UpdateTempStorageSize ==
    /\ pc = "idle"
    /\ Len(tempRequests) < MaxRequests
    /\ \E size \in 0 .. MaxTempSize :
          LET temp == updateTempStorageSize(devTempStorage, devTempStorageSize, size)
          IN /\ devTempStorage' = temp[1]
             /\ devTempStorageSize' = temp[2]
             /\ tempRequests' = Append(tempRequests, <<size, temp[1], temp[2]>>)
    /\ UNCHANGED <<solverVars, bufVars, rigidVars, gridVars, fluidVars, hostVars,
                   histVars, devInvScaledMasses, traceVars, rotationDependsOnUnwritten,
                   pinWritten, velocityWritten>>

NextTemp == UpdateTempStorageSize

SpecTemp == Init /\ [][NextTemp]_vars

Next ==
    \/ UpdateBegin
    \/ ApplyForces
    \/ PinPicked
    \/ PredictPositions
    \/ ComputeInvScaledMasses
    \/ PlaneStabilize
    \/ UpdateGrid
    \/ PlaneCollision
    \/ FluidLambda
    \/ FluidPosition
    \/ ShapeMatching
    \/ UpdateVelocity
    \/ UpdatePositions
    \/ FluidOmega
    \/ FluidVorticity
    \/ FluidNormal
    \/ FluidAkinciTension
    \/ FluidXSph
    \/ FinalPin

\* the solver constructed for a scene and stepped by update()
Spec == Init /\ [][Next]_vars

\* the statements of update() at which the host thread has a next launch
HostLabels ==
    { "applyForces", "pin", "predictPositions", "computeInvScaledMasses",
      "planeStabilize", "updateGrid", "planeCollision", "fluidLambda", "fluidPosition",
      "shapeMatching", "updateVelocity", "updatePositions", "fluidOmega",
      "fluidVorticity", "fluidNormal", "fluidAkinciTension", "fluidXSph", "finalPin" }
Running == pc \in HostLabels

\* update() with the host thread scheduled: weak fairness of the steps inside
\* a call, WF_vars(Running /\ Next), with its enabling condition written out
\* (a launch returns, so the host can step exactly while it is Running); the
\* caller is free never to call update again
SpecLive ==
    Init /\ [][Next]_vars /\ ([]<>(~Running) \/ []<><<Next>>_vars)

\* the same update() on the solver holding the pinned particles
SpecPinned == InitPinned /\ [][Next]_vars

\* ------------------------------------------------------ updateGridId alone
\* updateGridId on the positions of one particle admitted anywhere around
\* the grid, below its origin included
ProbeCoordinates == { -50, -30, -24, -23, -10, 0, 22, 23, 50 }
InitProbe ==
    \E x \in ProbeCoordinates, y \in ProbeCoordinates :
        \E rank \in Orders(1) :
            InitWith(addGranulars(EmptySolver, << <<x, y>> >>, SceneMass, rank))

UpdateGridId ==
    /\ pc = "idle"
    /\ pc' = "gridIds"
    /\ devCellId' = updateGridId(devCellId, buf[devPositions], numParticles)
    /\ devParticleId' = updateParticleId(devParticleId, numParticles)
    /\ UNCHANGED <<solverVars, bufVars, rigidVars, devSortedCellId, devSortedParticleId,
                   devCellStart, fluidVars, call, subStep, inner, numUpdates, histVars,
                   devInvScaledMasses, tempVars, traceVars, rotationDependsOnUnwritten,
                   pinWritten, velocityWritten>>

NextProbe == UpdateGridId

SpecProbe == InitProbe /\ [][NextProbe]_vars

\* ================================================================ properties
\* the tolerance of the comparisons: a tenth of the radius
Tol == Radius \div 10

\* update() has returned
Returned == pc = "idle" /\ numUpdates > 0
\* updateGrid has just returned
AfterUpdateGrid == pc = "planeCollision" /\ inner = 0
Particles == 0 .. numParticles - 1
Position(i) == buf[devPositions][i]
Velocity(i) == buf[devVelocities][i]
PickedValid == call.pickedParticleId >= 0 /\ call.pickedParticleId < numParticles
Distance(a, b) == ISqrt(Length2(VSub(a, b)))

\* C1: after update returns with a valid picked particle, the committed
\* position of the picked particle is pickedPos and its velocity is pickedVel.
C1_PickedParticlePinned ==
    (Returned /\ PickedValid) =>
        /\ Position(call.pickedParticleId) = call.pickedParticlePosition
        /\ Velocity(call.pickedParticleId) = call.pickedParticleVelocity

\* C2: after every update, every particle is on the free side of every plane:
\* dot(position - origin, normal) >= radius - tol.
C2_NoPlanePenetration ==
    Returned =>
        \A p \in Particles : \A k \in DOMAIN Planes :
            Dot(VSub(Position(p), Planes[k].origin), Planes[k].normal) >= Radius - Tol

\* C3: after an update, two solid particles of distinct phases are at distance
\* at least 2 * radius - tol.
C3_SolidsSeparated ==
    Returned =>
        \A i, j \in Particles :
            (devPhases[i] >= 0 /\ devPhases[j] >= 0 /\ devPhases[i] /= devPhases[j])
                => Distance(Position(i), Position(j)) >= 2 * Radius - Tol

\* C4: after any number of updates, the distance between two particles of a
\* rigid body equals the distance between their rest offsets, within tol.
C4_RigidBodiesRigid ==
    Returned =>
        \A r \in 0 .. numRigidBodies - 1 :
            \A i, j \in devRigidBodyParticleIdRange[r][1] ..
                        devRigidBodyParticleIdRange[r][2] - 1 :
                (i \notin oobInitialPositions /\ j \notin oobInitialPositions) =>
                    Abs(Distance(Position(i), Position(j))
                        - Distance(devRigidBodyInitialPositions[i],
                                   devRigidBodyInitialPositions[j])) <= Tol

\* C5: after updateGrid, for every particle i, cellId[i] is the cell of its
\* predicted position, cellStart[cellId[i]] is not -1 and is the index where
\* the run of that cell starts in sortedCellId, and i occurs in sortedParticleId
\* within that run; for every order of the findStartId threads.
C5_GridCorrect ==
    AfterUpdateGrid =>
        \A i \in Particles :
            LET c == devCellId[i]
                start == devCellStart[c]
            IN /\ c = calcGridAddress(calcGridPos(buf[devNewPositions][i]))
               /\ start /= -1
               /\ start \in Particles
               /\ devSortedCellId[start] = c
               /\ (start = 0 \/ devSortedCellId[start - 1] /= c)
               /\ \E k \in start .. numParticles - 1 :
                     /\ devSortedParticleId[k] = i
                     /\ \A m \in start .. k : devSortedCellId[m] = c

\* updateGrid has returned for a grid with two particles in one cell and a
\* second occupied cell
C5_Witness ==
    /\ AfterUpdateGrid
    /\ \E i, j \in Particles : i /= j /\ devCellId[i] = devCellId[j]
    /\ \E i, j \in Particles : devCellId[i] /= devCellId[j]
    /\ \E i \in Particles : devCellStart[devCellId[i]] > 0
    /\ numUpdates > 0

\* C6: after every updateGrid, sortedCellId is non-decreasing and, for every
\* cell of the grid, cellStart is the first index of the cell in sortedCellId
\* when a particle lies in the cell and -1 when none does.
C6_CellStartExact ==
    AfterUpdateGrid =>
        /\ \A k \in 1 .. numParticles - 1 : devSortedCellId[k - 1] <= devSortedCellId[k]
        /\ \A c \in CIdx :
              LET run == { k \in Particles : devSortedCellId[k] = c } IN
              IF run = {} THEN devCellStart[c] = -1
              ELSE devCellStart[c] \in run /\ \A k \in run : devCellStart[c] <= k

\* C7: an admission fails exactly when the particle count would exceed
\* numMaxParticles or, for a rigid body, the rigid-body count would exceed
\* numMaxRigidBodies or the centroid of the rest offsets is farther than
\* epsilon from the origin.
C7_FailsIffExceeds ==
    lastCall.op /= "none" =>
        (lastCall.result = "throw" <=>
            \/ lastCall.numParticles + lastCall.n > NumMaxParticles
            \/ /\ lastCall.op = "addRigidBody"
               /\ \/ lastCall.numRigidBodies + 1 > NumMaxRigidBodies
                  \/ Length2(lastCall.centroid) * CentroidEpsInv * CentroidEpsInv
                         > lastCall.n * lastCall.n)

\* C8: every rigid body of the solver has at most
\* NUM_MAX_PARTICLE_PER_RIGID_BODY particles.
C8_BodySizeBounded ==
    \A r \in 0 .. numRigidBodies - 1 :
        devRigidBodyParticleIdRange[r][2] - devRigidBodyParticleIdRange[r][1]
            <= NUM_MAX_PARTICLE_PER_RIGID_BODY

\* C9: an admission called with a negative massPerParticle fails and admits
\* no particle.
C9_NegativeMassRejected ==
    /\ (lastCall.op /= "none" /\ lastCall.mass < 0) =>
            (lastCall.result = "throw" /\ numParticles = lastCall.numParticles)
    /\ \A i \in Particles : devMasses[i] >= 0

\* C10: every fluid particle has phase -1, every granular and rigid particle a
\* phase >= 0, and two distinct solid particles have equal phases exactly when
\* one addRigidBody call admitted both; for every order of the atomicAdds.
C10_Phases ==
    /\ \A i \in Particles :
          IF admittedBy[i][2] = "addFluids" THEN devPhases[i] = -1
          ELSE devPhases[i] >= 0
    /\ \A i, j \in Particles :
          (i /= j /\ admittedBy[i][2] /= "addFluids" /\ admittedBy[j][2] /= "addFluids")
            => (devPhases[i] = devPhases[j]
                  <=> (admittedBy[i] = admittedBy[j]
                       /\ admittedBy[i][2] = "addRigidBody"))

\* a solver holding fluid, a rigid body and, admitted after the body, granular
\* particles whose phases were drawn in the reverse order of their indices
C10_Witness ==
    /\ \E i \in Particles : admittedBy[i][2] = "addFluids"
    /\ \E i, j \in Particles :
          i /= j /\ admittedBy[i] = admittedBy[j] /\ admittedBy[i][2] = "addRigidBody"
    /\ \E i, j \in Particles :
          /\ i < j /\ admittedBy[i] = admittedBy[j] /\ admittedBy[i][2] = "addGranulars"
          /\ devPhases[i] > devPhases[j]
          /\ \E b \in Particles :
                admittedBy[b][2] = "addRigidBody" /\ admittedBy[b][1] < admittedBy[i][1]

\* C11: update changes no phase, mass, inverse mass, particle count,
\* rigid-body count, rigid-body range or solid phase counter, and the number
\* of particles of negative phase stays what it was.
C11_UpdateFrame ==
    [][/\ UNCHANGED <<numParticles, numRigidBodies, devMasses, devInvMasses, devPhases,
                      devSolidPhaseCounter, devRigidBodyParticleIdRange>>
       /\ Cardinality({ i \in 0 .. numParticles' - 1 : devPhases'[i] < 0 })
            = Cardinality({ i \in Particles : devPhases[i] < 0 })]_vars

\* an update has returned on a solver holding fluid and a rigid body
C11_Witness ==
    /\ Returned
    /\ numRigidBodies > 0
    /\ \E i \in Particles : devPhases[i] < 0

\* the launches of one sub-step, in the order the claim lists them
Repeated(kernel, count) == [k \in 1 .. count |-> kernel]
ConstraintRound ==
    Repeated("planeCollision", Len(Planes)) \o <<"fluidLambda", "fluidPosition">>
        \o (IF numRigidBodies > 0 THEN <<"shapeMatching">> ELSE << >>)
SubStepLaunches ==
    <<"applyForces">> \o (IF PickedValid THEN <<"setParticle">> ELSE << >>)
        \o <<"predictPositions", "computeInvScaledMasses">>
        \o Repeated("planeStabilize", 2 * Len(Planes))
        \o <<"updateGrid">> \o ConstraintRound \o ConstraintRound
        \o <<"updateVelocity", "updatePositions", "fluidOmega", "fluidVorticity",
             "fluidNormal", "fluidAkinciTension", "fluidXSph">>
LaunchedInOrder ==
    /\ Len(launched) <= Len(SubStepLaunches)
    /\ launched = SubSeq(SubStepLaunches, 1, Len(launched))

C13_RotationDeterministic == ~rotationDependsOnUnwritten

\* the buffer and its size before the k-th recorded request
TempBefore(k) == IF k = 1 THEN <<0, 0>> ELSE <<tempRequests[k - 1][2], tempRequests[k - 1][3]>>
MaxOf(S) == CHOOSE m \in S : \A x \in S : x <= m

\* C15: devTempStorageSize is the largest size ever requested (0 if none), it
\* never decreases, and a request not larger than the current size changes
\* neither the size nor the buffer.
C15_TempStorageSizeIsMax ==
    /\ devTempStorageSize
          = MaxOf({0} \cup { tempRequests[k][1] : k \in 1 .. Len(tempRequests) })
    /\ Len(tempRequests) > 0 =>
          <<devTempStorage, devTempStorageSize>> = TempBefore(Len(tempRequests) + 1)
    /\ \A k \in 1 .. Len(tempRequests) :
          /\ tempRequests[k][3] >= TempBefore(k)[2]
          /\ tempRequests[k][1] <= TempBefore(k)[2] =>
                <<tempRequests[k][2], tempRequests[k][3]>> = TempBefore(k)

\* a request that grew the buffer, then a smaller one, then an equal one
C15_Witness ==
    /\ Len(tempRequests) = 3
    /\ tempRequests[1][1] > 1
    /\ tempRequests[2][1] < tempRequests[1][1]
    /\ tempRequests[3][1] = tempRequests[1][1]

\* C16: the four pointers always designate four distinct buffers, and at the
\* launch of fluidPosition, fluidAkinciTension and fluidXSph the buffer written
\* (devTempFloat3) is none of the buffers read.
C16_OutputNotInput ==
    /\ Cardinality({devPositions, devNewPositions, devTempFloat3, devVelocities}) = 4
    /\ pc = "fluidPosition" => devTempFloat3 /= devNewPositions
    /\ pc \in {"fluidAkinciTension", "fluidXSph"} =>
          devTempFloat3 \notin {devVelocities, devNewPositions}

\* fluidXSph about to be launched on a fluid, in a second sub-step, the
\* pointers exchanged by the swaps before it
C16_Witness ==
    /\ pc = "fluidXSph"
    /\ subStep = 1
    /\ devVelocities /= 3
    /\ \E i \in Particles : devPhases[i] < 0

\* C17: the contact kernel takes a visited pair (i, j) for a contact exactly
\* when both phases are >= 0 and differ, and a particle whose pairs all have a
\* fluid particle on one side comes out of the kernel where it went in.
C17_ContactOnlyBetweenSolids ==
    pc = "contacts" =>
        \A i \in Particles :
            /\ \A j \in Particles \ {i} :
                  ContactCandidate(devPhases, i, j)
                    <=> (devPhases[i] >= 0 /\ devPhases[j] >= 0 /\ devPhases[i] /= devPhases[j])
            /\ (\A j \in Particles \ {i} : devPhases[i] < 0 \/ devPhases[j] < 0)
                  => buf[devTempFloat3][i] = buf[devNewPositions][i]

\* fluidLambda has run in this solver
FluidLambdaHasRun ==
    \/ numUpdates > 0
    \/ subStep > 0
    \/ \E k \in 1 .. Len(launched) : launched[k] = "fluidLambda"

\* C18: the fluid kernels process particle i exactly when phase[i] < 0: the
\* guard lets through exactly the particles of negative phase, and once
\* fluidLambda has run the particles holding a density are exactly those; no
\* solid particle, the first admitted included, holds a lambda, a density, a
\* normal or a vorticity.
C18_FluidKernelsOnFluidsOnly ==
    /\ \A i \in Particles :
          ~FluidKernelReturns(devPhases, i, numParticles) <=> devPhases[i] < 0
    /\ FluidLambdaHasRun =>
          \A i \in Particles : devFluidDensities[i] /= 0 <=> devPhases[i] < 0
    /\ \A i \in Particles :
          devPhases[i] >= 0 =>
              /\ devFluidLambdas[i] = 0 /\ devFluidDensities[i] = 0
              /\ devFluidNormals[i] = Zero2 /\ devOmegas[i] = 0

\* an update has returned on a solver whose first particle is the first solid
\* admitted, and which holds fluid
C18_Witness ==
    /\ Returned
    /\ admittedBy[0] = <<1, "addRigidBody">>
    /\ \E i \in Particles : devPhases[i] < 0

\* C19: in the first sub-step after construction (velocities zero), applyForces
\* leaves the velocity of every particle of invMass 0 unchanged, and
\* predictPositions leaves its predicted position where the particle is.
C19_PinnedNotIntegrated ==
    (numUpdates = 0 /\ subStep = 0) =>
        \A i \in Particles :
            devInvMasses[i] = 0 =>
                /\ pc = "pin" => Velocity(i) = Zero2
                /\ (pc = "computeInvScaledMasses" /\ i /= call.pickedParticleId) =>
                       buf[devNewPositions][i] = Position(i)

\* C20: with a valid picked id, between the pin and predictPositions the
\* picked particle is at pickedPos with velocity zero, and predictPositions
\* puts its newPosition at pickedPos; with an id that is negative or not
\* below numParticles the pinning code changes no position and no velocity,
\* in the sub-steps or at the end of the step.
C20_PinnedBeforePredict ==
    /\ (PickedValid /\ pc = "predictPositions") =>
          /\ Position(call.pickedParticleId) = call.pickedParticlePosition
          /\ Velocity(call.pickedParticleId) = Zero2
    /\ (PickedValid /\ pc = "computeInvScaledMasses") =>
          buf[devNewPositions][call.pickedParticleId] = call.pickedParticlePosition
    /\ ~PickedValid => pinWritten = {}

\* the position of picked particle 2 just predicted, in a solver where
\* particle 2 was admitted by another call than particle 0
C20_Witness ==
    /\ pc = "computeInvScaledMasses"
    /\ PickedValid
    /\ call.pickedParticleId = 2
    /\ admittedBy[2] /= admittedBy[0]

\* C14: after every shape-matching pass the rotation stored for every rigid
\* body is a unit quaternion (never NaN).
C14_RotationUnitNorm ==
    \A r \in 0 .. numRigidBodies - 1 : devRigidBodyRotations[r] /= NaNRot

\* the mathematical floor of a / b for b > 0, and the positive modulo
FloorDiv(a, b) == a \div b
Wrap(a, b) == a % b
\* the linear address of wrap(floor((position - origin) / cellSize))
FloorCell(position) ==
    Wrap(FloorDiv(position[2] - CellOrigin[2], CellSize), GridSizeY) * GridSizeX
        + Wrap(FloorDiv(position[1] - CellOrigin[1], CellSize), GridSizeX)

\* C21: for every position, below the grid origin included, the cell id
\* updateGridId stores is the linear address of the wrapped floor of
\* (position - origin) / cellSize, and lies in [0, Gx * Gy).
C21_CellIsWrappedFloor ==
    pc = "gridIds" =>
        \A i \in Particles :
            /\ devCellId[i] \in 0 .. NumCells - 1
            /\ devCellId[i] = FloorCell(Position(i))

\* newPositions[i] after the first k launches of one pass over the planes
RECURSIVE NewPositionAfter(_, _, _)
NewPositionAfter(newPosition, position, k) ==
    IF k = 0 THEN newPosition
    ELSE particlePlaneCollisionConstraintOne(NewPositionAfter(newPosition, position, k - 1),
                                             position, Planes[k])
\* what the claim asks of one launch, from the newPosition before and after it
ProjectedOnto(plane, before, after) ==
    IF Penetration(before, plane) <= 0 THEN after = before
    ELSE Dot(VSub(after, plane.origin), plane.normal) = Radius

\* C22: one launch of the plane collision kernel never writes positions,
\* leaves newPosition unchanged where the penetration is <= 0 and otherwise
\* puts newPosition at distance radius from the plane.
C22_PlaneProjection ==
    [][pc = "planeCollision" =>
          /\ buf'[devPositions] = buf[devPositions]
          /\ \A i \in Particles :
                /\ buf'[devNewPositions][i]
                      = NewPositionAfter(buf[devNewPositions][i], Position(i), Len(Planes))
                /\ \A k \in 1 .. Len(Planes) :
                      LET before == NewPositionAfter(buf[devNewPositions][i], Position(i), k - 1)
                          after == NewPositionAfter(buf[devNewPositions][i], Position(i), k)
                      IN IsNaN(before) \/ ProjectedOnto(Planes[k], before, after)]_vars

\* the plane collisions have just put on the floor, at distance radius, a
\* particle whose predicted position was below that
C22_Witness ==
    /\ pc = "fluidLambda"
    /\ inner = 0
    /\ \E i \in Particles :
          /\ ~IsNaN(buf[devNewPositions][i])
          /\ buf[devNewPositions][i][2] = Radius
          /\ Position(i)[2] + Velocity(i)[2] * subDeltaTime < Radius

\* the entries one scan reads in every cell it can address
ScansBounded ==
    \A c \in CIdx :
        devCellStart[c] /= -1 =>
            Len(BucketRun(Grid, c, devCellStart[c], numParticles, 0)) <= numParticles

\* C23: every update call with at least one sub-step runs to completion (the
\* host gets through the launches of every sub-step and returns), and no
\* neighbour scan reads more than numParticles entries of a cell.
C23_UpdateCompletes ==
    /\ []ScansBounded
    /\ \A st \in {1, 2} :
          (pc = "applyForces" /\ subStep = 0 /\ call.numSubTimeStep = st)
              ~> (pc = "idle" /\ subStep = st)

\* an update of two sub-steps has returned on a solver holding a rigid body,
\* whose rotation loop ran four times
C23_Witness ==
    /\ Returned
    /\ call.numSubTimeStep = 2
    /\ subStep = 2
    /\ numRigidBodies > 0

\* the last launch of the call so far
LastLaunched == IF Len(launched) = 0 THEN "none" ELSE launched[Len(launched)]
\* the particles the fluid kernels leave alone
NonFluidIds == { i \in Particles : ~(devPhases[i] < 0) }

\* C24: just after a fluid position pass and the swap of devTempFloat3 and
\* devNewPositions, the newPosition of every non-fluid particle is the value
\* it had just before the pass (which the buffer now named devTempFloat3
\* still holds, the pass having written only the other buffer).
C24_SolidNewPositionsKept ==
    LastLaunched = "fluidPosition" =>
        \A i \in NonFluidIds :
            buf[devNewPositions][i] = buf[devTempFloat3][i]

\* a sub-step of the running call has just ended
SubStepEnded == subStep > 0 /\ pc \in {"applyForces", "finalPin"}

\* C25: at the end of every sub-step the velocity of every non-fluid particle
\* is the value updateVelocity wrote for it in that sub-step: the tension and
\* XSPH passes and their two swaps leave no scratch value in its place.
C25_SolidVelocityKept ==
    SubStepEnded =>
        \A i \in NonFluidIds : Velocity(i) = velocityWritten[i]

\* a sub-step has ended on a scene holding fluid and a moving solid particle,
\* after the tension and XSPH passes exchanged the velocity buffers twice
C25_Witness ==
    /\ SubStepEnded
    /\ FluidIds /= {}
    /\ \E i \in NonFluidIds : velocityWritten[i] /= Zero2 /\ ~IsNaN(velocityWritten[i])
    /\ \E k \in 1 .. Len(launched) - 1 :
          launched[k] = "fluidAkinciTension" /\ LastLaunched = "fluidXSph"

\* the statements of update() whose kernel scans the grid around each fluid
\* particle, and the cells the scan of particle i addresses
ScanningLabels ==
    { "fluidLambda", "fluidPosition", "fluidOmega", "fluidVorticity", "fluidNormal",
      "fluidAkinciTension", "fluidXSph" }
ScannedCells(i) ==
    LET center == calcGridPos(buf[devNewPositions][i])
    IN { calcGridAddress(<<center[1] + dx, center[2] + dy>>) :
            dx \in -FluidGridSearchOffset .. FluidGridSearchOffset,
            dy \in -FluidGridSearchOffset .. FluidGridSearchOffset }
\* the indices bucketStart + k at which the scan of one cell reads
\* sortedCellId and sortedParticleId
ScanIndices(c) ==
    IF devCellStart[c] = -1 THEN {}
    ELSE { devCellStart[c] + k : k \in 0 .. Len(BucketRun(Grid, c, devCellStart[c], numParticles, 0)) }
            \cap { j \in -1 - NumMaxParticles .. 2 * NumMaxParticles : j < numParticles }

\* C26: whenever a kernel is about to scan, every cellStart value a scan can
\* read is -1 or an index in [0, numParticles), and every index at which the
\* scan reads the sorted arrays lies in [0, numParticles).
C26_ScanIndicesInRange ==
    pc \in ScanningLabels =>
        \A i \in FluidIds :
            ~IsNaN(buf[devNewPositions][i]) =>
                \A c \in ScannedCells(i) :
                    /\ devCellStart[c] = -1 \/ devCellStart[c] \in 0 .. numParticles - 1
                    /\ ScanIndices(c) \subseteq 0 .. numParticles - 1

\* the indices of devRigidBodyInitialPositions shape matching reads for the
\* admitted bodies
RestOffsetReads ==
    UNION { { devRigidBodyParticleIdRange[r][1] + t :
                t \in BlockThreads(devRigidBodyParticleIdRange[r]) } :
            r \in 0 .. numRigidBodies - 1 }

\* C27: after every successful addRigidBody, whatever was admitted before it,
\* every rest offset was written inside the allocation of
\* devRigidBodyInitialPositions, and shape matching reads inside it too.
C27_RestOffsetsInsideAllocation ==
    /\ oobInitialPositions = {}
    /\ RestOffsetReads \subseteq 0 .. InitialPositionsAlloc - 1

\* the state of the solver an admission can write
AdmissionState ==
    <<numParticles, numRigidBodies, buf, devMasses, devInvMasses, devPhases,
      devSolidPhaseCounter, devRigidBodyParticleIdRange, devRigidBodyInitialPositions,
      oobInitialPositions, admittedBy>>
\* the step is an admission call that threw
Threw == numCalls' = numCalls + 1 /\ lastCall'.result = "throw"

\* C28: an admission that fails (capacity exceeded, or rest centroid away
\* from the origin) leaves the solver exactly as it was before the call.
C28_FailedAdmissionChangesNothing ==
    [][Threw => UNCHANGED AdmissionState]_vars

\* a rigid body has just been refused for its centroid on a solver that
\* already holds particles, as many as before the call
C28_Witness ==
    /\ numParticles > 0
    /\ lastCall.result = "throw"
    /\ lastCall.op = "addRigidBody"
    /\ lastCall.centroid /= Zero2
    /\ lastCall.numParticles = numParticles

\* the step is an admission call that succeeded
Admitted == numCalls' = numCalls + 1 /\ lastCall'.result = "ok"
\* the particles one admission call admitted
BlockOf(c) == { i \in Particles : admittedBy[i] = c }
RangeOf(r) ==
    devRigidBodyParticleIdRange[r][1] .. devRigidBodyParticleIdRange[r][2] - 1
\* every range is the block of one addRigidBody call, inside the particles,
\* and no two ranges meet
RangesAreBlocks ==
    /\ \A r \in 0 .. numRigidBodies - 1 :
          /\ RangeOf(r) /= {}
          /\ RangeOf(r) \subseteq Particles
          /\ admittedBy[devRigidBodyParticleIdRange[r][1]][2] = "addRigidBody"
          /\ RangeOf(r) = BlockOf(admittedBy[devRigidBodyParticleIdRange[r][1]])
    /\ \A r, q \in 0 .. numRigidBodies - 1 : r /= q => RangeOf(r) \cap RangeOf(q) = {}
    /\ \A i \in Particles :
          admittedBy[i][2] = "addRigidBody" =>
              \E r \in 0 .. numRigidBodies - 1 : i \in RangeOf(r)

\* C29: every successful admission appends the block [n, n + k) at the old
\* count n and leaves position, mass and phase of the earlier particles as
\* they were; the range of every rigid body is exactly the block of its own
\* particles, and the ranges are pairwise disjoint and inside [0, numParticles).
C29_AdmissionsAppendBlocks ==
    /\ [][Admitted =>
            /\ numParticles' = numParticles + lastCall'.n
            /\ lastCall'.numParticles = numParticles
            /\ \A i \in 0 .. numParticles' - 1 :
                  IF i < numParticles
                  THEN /\ buf'[devPositions'][i] = buf[devPositions][i]
                       /\ devMasses'[i] = devMasses[i]
                       /\ devPhases'[i] = devPhases[i]
                       /\ admittedBy'[i] = admittedBy[i]
                  ELSE admittedBy'[i] = <<numCalls', lastCall'.op>>]_vars
    /\ []RangesAreBlocks

\* two rigid bodies have been admitted with granular particles between them
C29_Witness ==
    /\ numRigidBodies = 2
    /\ \E i \in Particles :
          /\ admittedBy[i][2] = "addGranulars"
          /\ devRigidBodyParticleIdRange[0][2] <= i
          /\ i < devRigidBodyParticleIdRange[1][1]

\* C30: whenever a kernel is about to scan, the sorted grid is fresh for the
\* positions the kernel reads: the cell id paired with every fluid particle j
\* is the cell of newPositions[j].
C30_GridFreshAtScan ==
    pc \in ScanningLabels =>
        \A k \in Particles :
            LET j == devSortedParticleId[k] IN
            (j \in FluidIds /\ ~IsNaN(buf[devNewPositions][j])) =>
                devSortedCellId[k] = calcGridAddress(calcGridPos(buf[devNewPositions][j]))

====
